---- MODULE Spec2Model ----
(***************************************************************************)
(* Daily development log automation (.github/scripts/create_daily_issue.py)*)
(*                                                                         *)
(* Text is modelled as a sequence of tokens.  User-controlled text (todo   *)
(* texts, category names, commit titles) is built from single-character or *)
(* single-word tokens; the fixed markup the script writes is one token per *)
(* tag.  The glyphs of the source are written in ASCII:                    *)
(*   "<cal>"   the calendar glyph of the issue title prefix                *)
(*   "<tabs>"  the bookmark-tabs glyph of a todo category summary          *)
(*   "<spark>" the sparkles glyph of a branch heading                      *)
(*   "<dizzy>" the dizzy glyph of a commit summary                         *)
(*   "<h3>"    the tag <h3 style="display: inline;">                       *)
(*   "<divc>"  the tag <div align="center">                                *)
(***************************************************************************)
EXTENDS Integers, Sequences, FiniteSets, TLC

VARIABLES
    issues,   \* the issue store: issues[n] is issue number n
    today,    \* the calendar date the clock shows
    run,      \* run[r]: the local state of the invocation of main() in slot r
    nruns,    \* the number of invocations started so far
    led,      \* the ledger pipeline: merge_todos, create_todo_section, parse_existing_issue
    com,      \* one commit message on its way through the parsers and into a Todo region
    doc       \* one record body and what the two body parsers make of it

vars == <<issues, today, run, nruns, led, com, doc>>

-----------------------------------------------------------------------------
(* Strings *)

NL == "\n"
SP == " "

IsSpace(c) == c = SP \/ c = NL

\* str.lower(), token by token
LowerTok(c) ==
    CASE c = "A" -> "a"
      [] c = "B" -> "b"
      [] c = "Docs" -> "docs"
      [] c = "DOCS" -> "docs"
      [] c = "General" -> "general"
      [] c = "GENERAL" -> "general"
      [] c = "Body" -> "body"
      [] c = "Todo" -> "todo"
      [] c = "Footer" -> "footer"
      [] c = "Merge" -> "merge"
      [] OTHER -> c

\* a lower() that leaves the letter case alone
Lower_KeepCase(s) == s

Lower(s) == [i \in 1..Len(s) |-> LowerTok(s[i])]

\* str.title() of a branch name
TitleTok(c) ==
    CASE c = "main" -> "Main"
      [] c = "dev" -> "Dev"
      [] OTHER -> c

Title(s) == [i \in 1..Len(s) |-> TitleTok(s[i])]

Min(S) == CHOOSE m \in S : \A n \in S : m <= n

\* s[a-1:b] with Python's clamping
Slice(s, a, b) == IF a > b THEN <<>> ELSE SubSeq(s, a, b)

RECURSIVE LStripFrom(_, _)
LStripFrom(s, i) ==
    IF i > Len(s) THEN i
    ELSE IF IsSpace(s[i]) THEN LStripFrom(s, i + 1) ELSE i

RECURSIVE RStripTo(_, _)
RStripTo(s, j) ==
    IF j < 1 THEN j
    ELSE IF IsSpace(s[j]) THEN RStripTo(s, j - 1) ELSE j

\* str.strip()
Strip(s) == Slice(s, LStripFrom(s, 1), RStripTo(s, Len(s)))

\* str.startswith(p)
StartsWith(s, p) == Len(s) >= Len(p) /\ SubSeq(s, 1, Len(p)) = p

MatchAt(s, p, i) == i + Len(p) - 1 <= Len(s) /\ SubSeq(s, i, i + Len(p) - 1) = p

\* str.find(p, i-1) + 1: the first position >= i where p occurs, 0 if none
Find(s, p, i) ==
    LET hits == {k \in i..(Len(s) - Len(p) + 1) : MatchAt(s, p, k)} IN
    IF hits = {} THEN 0 ELSE Min(hits)

\* p in s
Contains(s, p) == Find(s, p, 1) # 0

\* str.split('\n')
RECURSIVE SplitFrom(_, _)
SplitFrom(s, i) ==
    LET j == Find(s, <<NL>>, i) IN
    IF j = 0 THEN <<Slice(s, i, Len(s))>>
    ELSE <<Slice(s, i, j - 1)>> \o SplitFrom(s, j + 1)

SplitLines(s) == SplitFrom(s, 1)

\* sep.join(parts)
RECURSIVE Join(_, _)
Join(parts, sep) ==
    IF Len(parts) = 0 THEN <<>>
    ELSE IF Len(parts) = 1 THEN parts[1]
    ELSE parts[1] \o sep \o Join(Tail(parts), sep)

Digits == <<"0", "1", "2", "3", "4", "5", "6", "7", "8", "9">>

\* str(n)
RECURSIVE NumStr(_)
NumStr(n) ==
    IF n < 10 THEN <<Digits[n + 1]>>
    ELSE NumStr(n \div 10) \o <<Digits[(n % 10) + 1]>>

\* list.insert(i, x) with a 0-based index i <= len(list)
InsertAt(s, i, x) == SubSeq(s, 1, i) \o <<x>> \o SubSeq(s, i + 1, Len(s))

-----------------------------------------------------------------------------
(* The todo ledger: a list of entries (checked, text); an entry whose text *)
(* starts with "@" is a category marker.                                   *)

Entry(c, t) == [checked |-> c, text |-> t]

General == <<"General">>

\* the line '@General'
General_Marker_Line == <<"@", "General">>

\* text.startswith('@')
IsMarker(t) == StartsWith(t, <<"@">>)

\* text[1:].strip()
CategoryOf(t) == Strip(Tail(t))

\* (False, f"@{current_category}")
Marker(cat) == Entry(FALSE, <<"@">> \o cat)

\* merge_todos: the 0-based index of the first marker of the category, -1 for None
CategoryIndex(result, current_category) ==
    LET hits == {i \in 0..(Len(result) - 1) :
                    /\ IsMarker(result[i + 1].text)
                    /\ Lower(CategoryOf(result[i + 1].text)) = Lower(current_category)}
    IN  IF hits = {} THEN -1 ELSE Min(hits)

\* merge_todos: the 0-based index of the first marker from start on, len(result)
\* when there is none
NextCategoryIndex(result, start) ==
    LET hits == {i \in start..(Len(result) - 1) : IsMarker(result[i + 1].text)}
    IN  IF hits = {} THEN Len(result) ELSE Min(hits)

\* merge_todos: a category marker of either list
MergeMarker(st, e) ==
    LET cat == CategoryOf(e.text) IN
    IF Lower(cat) \notin st.processed
    THEN [st EXCEPT !.current = cat,
                    !.result = Append(@, Marker(cat)),
                    !.processed = @ \cup {Lower(cat)}]
    ELSE [st EXCEPT !.current = cat]

\* merge_todos: the loop over existing_todos
RECURSIVE MergeExisting(_, _, _)
MergeExisting(existing, i, st) ==
    IF i > Len(existing) THEN st
    ELSE LET e == existing[i] IN
         IF IsMarker(e.text)
         THEN MergeExisting(existing, i + 1, MergeMarker(st, e))
         ELSE MergeExisting(existing, i + 1,
                  [st EXCEPT !.todo_map = (e.text :> Len(st.result)) @@ @,
                             !.result = Append(@, e)])

\* merge_todos: result.insert(0, (False, "@General")); todo_map is left as it is
InsertGeneral(st) ==
    [st EXCEPT !.result = InsertAt(@, 0, Marker(General)),
               !.processed = @ \cup {<<"general">>}]

\* merge_todos: the General marker added before the loop over new_todos
MergeGeneralFirst(new, st) ==
    IF (\A i \in 1..Len(new) : ~IsMarker(new[i].text)) /\ <<"general">> \notin st.processed
    THEN InsertGeneral(st)
    ELSE st

\* merge_todos: one todo item of new_todos
MergeItem(st0, e) ==
    LET st == IF st0.current = General /\ <<"general">> \notin st0.processed
              THEN InsertGeneral(st0) ELSE st0
        category_index == CategoryIndex(st.result, st.current)
        next_category_index == NextCategoryIndex(st.result, category_index + 1)
    IN  IF category_index = -1 THEN st
        ELSE IF e.text \notin DOMAIN st.todo_map
        THEN [st EXCEPT
                !.result = InsertAt(@, next_category_index, e),
                !.todo_map = (e.text :> next_category_index) @@
                             [t \in DOMAIN @ |-> IF @[t] >= next_category_index
                                                 THEN @[t] + 1 ELSE @[t]]]
        ELSE LET idx == st.todo_map[e.text] IN
             IF e.checked /\ ~st.result[idx + 1].checked
             THEN [st EXCEPT !.result[idx + 1] = Entry(TRUE, e.text)]
             ELSE st

\* merge_todos: the loop over new_todos
RECURSIVE MergeNew(_, _, _)
MergeNew(new, i, st) ==
    IF i > Len(new) THEN st
    ELSE LET e == new[i] IN
         IF IsMarker(e.text)
         THEN MergeNew(new, i + 1, MergeMarker(st, e))
         ELSE MergeNew(new, i + 1, MergeItem(st, e))

merge_todos(existing_todos, new_todos) ==
    LET st0 == [result |-> <<>>, todo_map |-> <<>>, processed |-> {}, current |-> General]
        st1 == MergeExisting(existing_todos, 1, st0)
        st2 == MergeGeneralFirst(new_todos, st1)
    IN  MergeNew(new_todos, 1, st2).result

-----------------------------------------------------------------------------
(* CategoryManager and create_todo_section *)

\* CategoryManager.__init__: _categories
InitCategories == (<<"general">> :> General)

\* CategoryManager.add_category: the dictionary afterwards
add_category(cats, category) ==
    IF category = <<>> THEN cats
    ELSE LET c == Strip(category) IN
         IF Lower(c) \in DOMAIN cats THEN cats ELSE (Lower(c) :> c) @@ cats

\* CategoryManager.add_category: the value returned
CategoryName(cats, category) ==
    IF category = <<>> THEN cats[<<"general">>]
    ELSE add_category(cats, category)[Lower(Strip(category))]

\* the 1-based position of key in the list of category blocks, 0 if absent
RECURSIVE BlockIdx(_, _, _)
BlockIdx(blocks, key, i) ==
    IF i > Len(blocks) THEN 0
    ELSE IF blocks[i].key = key THEN i ELSE BlockIdx(blocks, key, i + 1)

\* create_todo_section: the first loop, filling general_todos and categorized
RECURSIVE Categorize(_, _, _)
Categorize(todos, i, st) ==
    IF i > Len(todos) THEN st
    ELSE LET e == todos[i] IN
         IF IsMarker(e.text)
         THEN LET category == CategoryOf(e.text)
                  name == CategoryName(st.cats, category)
                  cats1 == add_category(st.cats, category)
              IN  Categorize(todos, i + 1,
                      [st EXCEPT !.cats = add_category(cats1, name),
                                 !.current = CategoryName(cats1, name)])
         ELSE IF st.current = General
         THEN Categorize(todos, i + 1, [st EXCEPT !.general_todos = Append(@, e)])
         ELSE LET key == Lower(st.current)
                  k == BlockIdx(st.categorized, key, 1)
              IN  Categorize(todos, i + 1,
                      IF k = 0
                      THEN [st EXCEPT !.categorized =
                               Append(@, [key |-> key, name |-> st.current, todos |-> <<e>>])]
                      ELSE [st EXCEPT !.categorized[k].todos = Append(@, e)])

\* the category blocks create_todo_section renders, General first
CategoryBlocks(todos) ==
    LET st == Categorize(todos, 1, [cats |-> InitCategories, current |-> General,
                                    general_todos |-> <<>>, categorized |-> <<>>])
        gen == IF st.general_todos # <<>>
               THEN << [key |-> <<"general">>, name |-> General, todos |-> st.general_todos] >>
               ELSE <<>>
    IN  gen \o SelectSeq(st.categorized,
                         LAMBDA b : b.todos # <<>> /\ b.key # <<"general">>)

\* f"- {'[x]' if checked else '[ ]'} {text}"
TodoLine(e) == <<"-", SP, "[", IF e.checked THEN "x" ELSE SP, "]", SP>> \o e.text

CountChecked(todos) == Cardinality({i \in 1..Len(todos) : todos[i].checked})

\* one <details> block of the Todo region
TodoBlock(b) ==
    <<"<details>", NL, "<summary>", "<tabs>", SP>> \o b.name
    \o <<SP, "(">> \o NumStr(CountChecked(b.todos)) \o <<"/">> \o NumStr(Len(b.todos))
    \o <<")", "</summary>", NL, NL>>
    \o Join([i \in 1..Len(b.todos) |-> TodoLine(b.todos[i])], <<NL>>)
    \o <<NL, "</details>">>

create_todo_section(todos) ==
    IF todos = <<>> THEN <<>>
    ELSE LET blocks == CategoryBlocks(todos) IN
         Join([i \in 1..Len(blocks) |-> TodoBlock(blocks[i])], <<NL, NL>>)

-----------------------------------------------------------------------------
(* The record body and parse_existing_issue *)

TodoHeading == "## <memo> Todo"
BranchHeading == "## <chart> Branch Summary"

\* tokens matched by \w+
WordTokens == {"Main", "Dev", "main", "dev", "a", "b", "c", "x", "y", "z", "A", "B",
               "feat", "fix", "Merge", "General", "Docs", "docs"}

IsWord(c) == c \in WordTokens

\* dict[key] = value on an insertion-ordered dict kept as a list of pairs
RECURSIVE DictIdx(_, _, _)
DictIdx(d, key, i) ==
    IF i > Len(d) THEN 0
    ELSE IF d[i].name = key THEN i ELSE DictIdx(d, key, i + 1)

DictSet(d, key, value) ==
    LET k == DictIdx(d, key, 1) IN
    IF k = 0 THEN Append(d, [name |-> key, content |-> value])
    ELSE [d EXCEPT ![k].content = value]

RECURSIVE WordEnd(_, _)
WordEnd(s, i) ==
    IF i > Len(s) THEN i
    ELSE IF IsWord(s[i]) THEN WordEnd(s, i + 1) ELSE i

\* branch_pattern matched at position i: the branch name, the content and the
\* position after the match; end = 0 when there is no match at i
BranchMatch(body, i) ==
    LET j == LStripFrom(body, i + 1)
        k == LStripFrom(body, j + 3)
        m == WordEnd(body, k)
        close == Find(body, <<"</details>">>, m + 2)
    IN  IF /\ i <= Len(body) /\ body[i] = "<details>"
           /\ MatchAt(body, <<"<summary>", "<h3>", "<spark>">>, j)
           /\ m > k
           /\ MatchAt(body, <<"</h3>", "</summary>">>, m)
           /\ close # 0
        THEN [name |-> SubSeq(body, k, m - 1),
              content |-> Slice(body, m + 2, close - 1),
              end |-> close + 1]
        ELSE [name |-> <<>>, content |-> <<>>, end |-> 0]

\* parse_existing_issue: re.finditer(branch_pattern, body, re.DOTALL) and the loop over it
RECURSIVE ParseBranches(_, _, _)
ParseBranches(body, i, branches) ==
    LET starts == {k \in i..Len(body) : body[k] = "<details>" /\ BranchMatch(body, k).end # 0} IN
    IF starts = {} THEN branches
    ELSE LET mt == BranchMatch(body, Min(starts)) IN
         ParseBranches(body, mt.end, DictSet(branches, mt.name, Strip(mt.content)))

\* the greatest k in lo..hi with a newline at k and at k + 1, or 0
LastTwoNewlines(s, lo, hi) ==
    LET ks == {k \in lo..hi : MatchAt(s, <<NL, NL>>, k)} IN
    IF ks = {} THEN 0 ELSE CHOOSE k \in ks : \A m \in ks : m <= k

\* the lookahead (?=\n\n<div align="center">|$) at position h
TodoEndAt(s, h) ==
    \/ MatchAt(s, <<NL, NL, "<divc>">>, h)
    \/ h = Len(s) + 1
    \/ h = Len(s) /\ s[h] = NL

\* the end of the lazy group (.*?) of todo_pattern starting at g
TodoEnd(s, g) == Min({h \in g..(Len(s) + 1) : TodoEndAt(s, h)})

\* re.search(todo_pattern, body, re.DOTALL): group 1 in a one-element list, or the empty list
RECURSIVE TodoMatch(_, _)
TodoMatch(body, i) ==
    LET p == Find(body, <<TodoHeading>>, i) IN
    IF p = 0 THEN <<>>
    ELSE LET e == LStripFrom(body, p + 1)
             k == LastTwoNewlines(body, p + 1, e - 2)
         IN  IF k = 0 THEN TodoMatch(body, p + 1)
             ELSE << Slice(body, k + 2, TodoEnd(body, k + 2) - 1) >>

\* line.split('<tabs>')[1].split('</summary>')[0].strip()
SummaryCategory(line) ==
    LET a == Find(line, <<"<tabs>">>, 1)
        b == Find(line, <<"<tabs>">>, a + 1)
        part == Slice(line, a + 1, IF b = 0 THEN Len(line) ELSE b - 1)
        c == Find(part, <<"</summary>">>, 1)
    IN  Strip(IF c = 0 THEN part ELSE Slice(part, 1, c - 1))

\* re.match(r'- \[([ x])\] (.*)', line)
IsCheckbox(line) ==
    /\ Len(line) >= 6
    /\ SubSeq(line, 1, 3) = <<"-", SP, "[">>
    /\ line[4] \in {SP, "x"}
    /\ SubSeq(line, 5, 6) = <<"]", SP>>

\* parse_existing_issue: the loop over the lines of the Todo region
RECURSIVE ParseTodoLines(_, _, _)
ParseTodoLines(lines, i, todos) ==
    IF i > Len(lines) THEN todos
    ELSE LET line == Strip(lines[i]) IN
         IF line = <<>> THEN ParseTodoLines(lines, i + 1, todos)
         ELSE IF Contains(line, <<"<details>">>) THEN ParseTodoLines(lines, i + 1, todos)
         ELSE IF Contains(line, <<"</details>">>) THEN ParseTodoLines(lines, i + 1, todos)
         ELSE IF Contains(line, <<"<summary>", "<tabs>">>)
         THEN ParseTodoLines(lines, i + 1, Append(todos, Marker(SummaryCategory(line))))
         ELSE IF IsCheckbox(line)
         THEN ParseTodoLines(lines, i + 1,
                  Append(todos, Entry(line[4] = "x", Slice(line, 7, Len(line)))))
         ELSE ParseTodoLines(lines, i + 1, todos)

parse_existing_issue(body) ==
    LET mt == TodoMatch(body, 1)
        todo_section == IF mt = <<>> THEN <<>> ELSE Strip(mt[1])
    IN  [branches |-> ParseBranches(body, 1, <<>>),
         todos |-> IF todo_section = <<>> THEN <<>>
                   ELSE ParseTodoLines(SplitLines(todo_section), 1, <<>>)]

\* the <details> block of one branch in the record body
BranchSection(branch_name, branch_content) ==
    <<"<details>", NL, "<summary>", "<h3>", "<spark>", SP>> \o branch_name
    \o <<"</h3>", "</summary>", NL, NL>> \o branch_content \o <<NL, "</details>">>

\* the record body main() writes: title, Branch Summary region, Todo region
RecordBody(issue_title, branch_sections, todo_section) ==
    <<"#", SP>> \o issue_title
    \o <<NL, NL, "<divc>", NL, NL, BranchHeading, NL, NL, "</div>", NL, NL>>
    \o branch_sections
    \o <<NL, NL, "<divc>", NL, NL, TodoHeading, NL, NL, "</div>", NL, NL>>
    \o todo_section

-----------------------------------------------------------------------------
(* Commit messages *)

\* an is_merge_commit_message that takes no message for a merge message
is_merge_commit_message_Never(message) == FALSE

\* is_merge_commit_message
is_merge_commit_message(message) == StartsWith(message, <<"Merge">>)

\* $ without re.MULTILINE: the end of the string, or just before a final newline
EndAt(s, q) == q = Len(s) + 1 \/ (q = Len(s) /\ s[q] = NL)

\* \s*\n\s*\[word\] matched at position p (case-insensitive): the position after
\* the closing bracket, 0 when there is no match at p
SectionAt(s, p, word) ==
    LET e == LStripFrom(s, p) IN
    IF /\ e + 2 <= Len(s)
       /\ s[e] = "[" /\ LowerTok(s[e + 1]) = word /\ s[e + 2] = "]"
       /\ \E k \in p..(e - 1) : s[k] = NL
    THEN e + 3 ELSE 0

\* the end of a lazy group (.*?) starting at q: the first position where one of the
\* later sections, or the end of the message, matches
RECURSIVE LazyEnd(_, _, _)
LazyEnd(s, q, words) ==
    IF EndAt(s, q) \/ \E w \in words : SectionAt(s, q, w) # 0 THEN q
    ELSE LazyEnd(s, q + 1, words)

\* the optional group (?:\s*\n\s*\[word\](.*?))? tried at position p, the later
\* sections being words: its content and the position where it ends
SectionGroup(s, p, word, later) ==
    LET c == SectionAt(s, p, word) IN
    IF c = 0 THEN [text |-> <<>>, end |-> p]
    ELSE LET q == LazyEnd(s, c, later) IN [text |-> Slice(s, c, q - 1), end |-> q]

\* COMMIT_TYPES.get(commit_type, other)['description']
TypeDescription(commit_type) ==
    CASE commit_type = <<"feat">> -> "New Feature"
      [] commit_type = <<"fix">> -> "Bug Fix"
      [] commit_type = <<"docs">> -> "Documentation Update"
      [] OTHER -> "Other"

\* parse_commit_message; ok = FALSE stands for None, an absent section for an empty one
parse_commit_message(message) ==
    LET i == Find(message, <<"[">>, 1)
        j == IF i = 0 THEN 0 ELSE Find(message, <<"]", SP>>, i + 1)
    IN  IF j = 0
        THEN [ok |-> FALSE, type |-> <<>>, description |-> "", title |-> <<>>,
              body |-> <<>>, todo |-> <<>>, footer |-> <<>>]
        ELSE LET p == LazyEnd(message, j + 2, {"body", "todo", "footer"})
                 b == SectionGroup(message, p, "body", {"todo", "footer"})
                 t == SectionGroup(message, b.end, "todo", {"footer"})
                 f == SectionGroup(message, t.end, "footer", {})
                 commit_type == Lower(Slice(message, i + 1, j - 1))
             IN  [ok |-> TRUE, type |-> commit_type,
                  description |-> TypeDescription(commit_type),
                  title |-> Slice(message, j + 2, p - 1),
                  body |-> b.text, todo |-> t.text, footer |-> f.text]

\* the stripped non-empty lines of a text
StrippedLines(text) ==
    SelectSeq([k \in 1..Len(SplitLines(text)) |-> Strip(SplitLines(text)[k])],
              LAMBDA l : l # <<>>)

\* convert_to_checkbox_list: the lines of the result
RECURSIVE CheckboxLines(_, _, _, _)
CheckboxLines(ls, i, lines, current_category) ==
    IF i > Len(ls) THEN lines
    ELSE LET line == ls[i] IN
         IF StartsWith(line, <<"@">>)
         THEN CheckboxLines(ls, i + 1, Append(lines, line), line)
         ELSE IF StartsWith(line, <<"-">>) \/ StartsWith(line, <<"*">>)
         THEN LET add == /\ current_category = <<>>
                         /\ \A k \in 1..Len(lines) : ~StartsWith(lines[k], <<"@", "General">>)
                  lines1 == IF add THEN <<General_Marker_Line>> \o lines ELSE lines
              IN  CheckboxLines(ls, i + 1,
                      Append(lines1, <<"-", SP>> \o Strip(Tail(line))),
                      IF add THEN General_Marker_Line ELSE current_category)
         ELSE CheckboxLines(ls, i + 1, lines, current_category)

convert_to_checkbox_list(text) ==
    IF text = <<>> THEN <<>>
    ELSE Join(CheckboxLines(StrippedLines(Strip(text)), 1, <<>>, <<>>), <<NL>>)

\* main: the todos of a commit when today's record exists
\* (category lines kept, item lines without their "- ")
CommitTodos(todo) ==
    IF todo = <<>> THEN <<>>
    ELSE LET ls == SplitLines(convert_to_checkbox_list(todo))
             keep == SelectSeq(ls, LAMBDA l : StartsWith(l, <<"@">>) \/ StartsWith(l, <<"-">>))
         IN  [k \in 1..Len(keep) |->
                 IF StartsWith(keep[k], <<"@">>) THEN Entry(FALSE, keep[k])
                 ELSE Entry(FALSE, Strip(Slice(keep[k], 3, Len(keep[k]))))]

\* main: the todos of a commit when the record is created (item lines only)
CommitTodosNewIssue(todo) ==
    IF todo = <<>> THEN <<>>
    ELSE LET ls == SplitLines(convert_to_checkbox_list(todo))
             keep == SelectSeq(ls, LAMBDA l : StartsWith(l, <<"-">>))
         IN  [k \in 1..Len(keep) |-> Entry(FALSE, Strip(Slice(keep[k], 3, Len(keep[k]))))]

IsDigit(c) == \E d \in 1..10 : Digits[d] = c

\* int(digits)
RECURSIVE ToInt(_)
ToInt(ds) ==
    IF ds = <<>> THEN 0
    ELSE 10 * ToInt(SubSeq(ds, 1, Len(ds) - 1))
         + ((CHOOSE d \in 1..10 : Digits[d] = ds[Len(ds)]) - 1)

RECURSIVE DigitsEnd(_, _)
DigitsEnd(s, i) ==
    IF i > Len(s) THEN i
    ELSE IF IsDigit(s[i]) THEN DigitsEnd(s, i + 1) ELSE i

\* set(re.findall(r'#(\d+)', text)) as numbers
IssueNumbers(text) ==
    { ToInt(SubSeq(text, i + 1, DigitsEnd(text, i + 1) - 1)) :
        i \in {k \in 1..Len(text) : text[k] = "#" /\ DigitsEnd(text, k + 1) > k + 1} }

\* create_commit_section: the text of f"{title}\n{body}\n{footer}"
FullMessage(commit_data) ==
    commit_data.title \o <<NL>> \o Strip(commit_data.body) \o <<NL>> \o Strip(commit_data.footer)

\* create_commit_section: the rendered block; related_issues is the list of
\* related-issue lines it has collected
CommitSectionText(commit_data, sha7, author, time_string, related_issues) ==
    LET blines == StrippedLines(Strip(commit_data.body))
        quoted == Join([k \in 1..Len(blines) |-> <<">", SP, "<bullet>", SP>> \o blines[k]], <<NL>>)
        quoted_body ==
            IF related_issues = <<>> THEN quoted
            ELSE quoted \o <<NL, ">", SP, NL, ">", SP, "Related Issues:", NL, ">", SP>>
                 \o Join(related_issues, <<NL, ">", SP>>)
    IN  <<">", SP, "<details>", NL,
          ">", SP, "<summary>", "<dizzy>", SP, time_string, SP, "-", SP>>
        \o Strip(commit_data.title)
        \o <<"</summary>", NL, ">", NL, ">", SP, "Type:", SP>> \o commit_data.type
        \o <<SP, "(", commit_data.description, ")", NL,
             ">", SP, "Commit:", SP, sha7, NL,
             ">", SP, "Author:", SP, author, NL, ">", NL>>
        \o quoted_body
        \o <<NL, ">", SP, "</details>">>

\* is_commit_already_logged
is_commit_already_logged(commit_message, existing_content) ==
    LET ls == SplitLines(commit_message)
        commit_title == Strip(ls[1])
        commit_body == Strip(Join(Tail(ls), <<NL>>))
    IN  \E k \in 1..Len(existing_content.branches) :
            LET branch_content == existing_content.branches[k].content IN
            /\ Contains(branch_content, commit_title)
            /\ (commit_body = <<>> \/ Contains(branch_content, commit_body))

-----------------------------------------------------------------------------
(* The repository: commits and the issue store *)

MaxRuns == 3
MaxDay == 2
MaxChecked == 1
MaxCommits == 4

\* the slots invocations run in; invocations follow one another in slot 1
RunIds == {1, 2}

CommitIds == {"K1", "K2", "K3", "M1", "M0", "D1"}

\* commit.commit.message
Message(c) ==
    CASE c = "K1" -> <<"[", "feat", "]", SP, "a", NL, "[", "Todo", "]", NL,
                       "@", "A", NL, "-", SP, "x", NL, "-", SP, "y", NL,
                       "@", "B", NL, "-", SP, "z">>
      [] c = "K2" -> <<"[", "fix", "]", SP, "b", NL, "[", "Body", "]", NL, "c", NL,
                       "[", "Footer", "]", NL, "#", "1">>
      [] c = "K3" -> <<"oops">>
      [] c = "M1" -> <<"Merge", SP, "dev">>
      [] c = "M0" -> <<"Merge", SP, "a">>
      [] c = "D1" -> <<"docs", ":", SP, "a">>
      [] c = "M2" -> <<"Merge", SP, "main">>
      [] c = "M3" -> <<"Merge", SP, "[", "fix", "]", SP, "w", NL, "[", "Todo", "]", NL,
                       "-", SP, "w">>
      [] c = "M4" -> <<"Merge", SP, "b">>

\* len(commit.parents)
Parents(c) == IF c \in {"M1", "M2", "M4"} THEN 2 ELSE 1

\* list(repo.compare(parent1.sha, merge_commit.sha).commits)
Compare1(c) ==
    CASE c = "M1" -> <<"K1">>
      [] c = "M2" -> <<"M3">>
      [] c = "M4" -> <<"M4">>
      [] OTHER -> <<>>

\* list(repo.compare(parent2.sha, merge_commit.sha).commits)
Compare2(c) ==
    CASE c = "M1" -> <<"K1", "K2">>
      [] c = "M2" -> <<"M3", "K2">>
      [] c = "M4" -> <<"M4", "K2">>
      [] OTHER -> <<>>

\* commit.sha[:7]
Sha7(c) == c

Author == "dev1"
TimeString == "12:00:00"
RepoName == "repo"
Branches == {<<"main">>}

\* get_merge_commits: the commits of both comparisons, one per stripped message
RECURSIVE UniqueByMessage(_, _, _)
UniqueByMessage(cs, i, acc) ==
    IF i > Len(cs) THEN acc
    ELSE IF \E k \in 1..Len(acc) : Strip(Message(acc[k])) = Strip(Message(cs[i]))
    THEN UniqueByMessage(cs, i + 1, acc)
    ELSE UniqueByMessage(cs, i + 1, Append(acc, cs[i]))

\* a get_merge_commits that returns both comparisons as they are
get_merge_commits_KeepAll(c) ==
    IF Parents(c) # 2 THEN <<>> ELSE Compare1(c) \o Compare2(c)

get_merge_commits(c) ==
    IF Parents(c) # 2 THEN <<>>
    ELSE UniqueByMessage(Compare1(c) \o Compare2(c), 1, <<>>)

\* re.match(excluded_pattern, commit.commit.message) with the default pattern
Excluded(message) ==
    /\ Len(message) >= 2
    /\ message[1] \in {"chore", "docs", "style"}
    /\ message[2] = ":"

\* now.strftime('%Y-%m-%d')
DateString(d) == <<"day">> \o NumStr(d)

DailyLogPrefix == <<"<cal>", SP, "Daily Development Log">>

\* f"{issue_prefix} Daily Development Log ({date_string}) - {repo_name}"
IssueTitle(d) ==
    DailyLogPrefix \o <<SP, "(">> \o DateString(d) \o <<")", SP, "-", SP, RepoName>>

\* is_daily_log_issue
is_daily_log_issue(issue_title) == StartsWith(issue_title, DailyLogPrefix)

\* f"Daily Development Log ({date})" in issue.title
IsTodayTitle(issue_title, d) ==
    Contains(issue_title, <<"Daily Development Log", SP, "(">> \o DateString(d) \o <<")">>)

\* repo.get_issues(state='open', labels=[issue_label]): the open daily-log issues,
\* newest first, as read at the time of the call
RECURSIVE OpenDaily(_, _)
OpenDaily(store, n) ==
    IF n = 0 THEN <<>>
    ELSE IF store[n].state = "open" /\ store[n].daily
    THEN <<[number |-> n, title |-> store[n].title, body |-> store[n].body]>>
         \o OpenDaily(store, n - 1)
    ELSE OpenDaily(store, n - 1)

\* the first issue of a list of hits, as a list of at most one
FirstOf(hits) == IF hits = <<>> THEN <<>> ELSE <<hits[1]>>

-----------------------------------------------------------------------------
(* domains/commits/parser.py: CommitParser *)

\* str.upper(), token by token
UpperTok(c) ==
    CASE c = "hotfix" -> "HOTFIX"
      [] c = "Hotfix" -> "HOTFIX"
      [] OTHER -> c

Upper(s) == [i \in 1..Len(s) |-> UpperTok(s[i])]

\* CommitParser.COMMIT_TYPES
CommitParser_COMMIT_TYPES ==
    { <<"feat">>, <<"fix">>, <<"docs">>, <<"style">>, <<"refactor">>, <<"test">>,
      <<"chore">>, <<"design">>, <<"comment">>, <<"rename">>, <<"remove">>, <<"debug">>,
      <<"!", "BREAKING", SP, "CHANGE">>, <<"!", "HOTFIX">> }

\* title_pattern.match(title_line): ^\[([^(\]]+)(?:\(([^)]+)\))?\]\s*(.+)$
title_pattern(title_line) ==
    LET stops == {k \in 2..Len(title_line) : title_line[k] \in {"(", "]"}}
        e == IF stops = {} THEN 0 ELSE Min(stops)
        g == IF e # 0 /\ title_line[e] = "(" THEN Find(title_line, <<")">>, e + 1) ELSE 0
        close == IF e = 0 THEN 0
                 ELSE IF title_line[e] = "]" THEN e
                 ELSE IF g > e + 1 /\ MatchAt(title_line, <<"]">>, g + 1) THEN g + 1
                 ELSE 0
    IN  IF /\ title_line # <<>>
           /\ title_line[1] = "["
           /\ e > 2
           /\ close # 0
           /\ LStripFrom(title_line, close + 1) <= Len(title_line)
        THEN [ok |-> TRUE,
              type |-> Slice(title_line, 2, e - 1),
              scope |-> IF title_line[e] = "(" THEN Slice(title_line, e + 1, g - 1) ELSE <<>>,
              title |-> Slice(title_line, LStripFrom(title_line, close + 1), Len(title_line))]
        ELSE [ok |-> FALSE, type |-> <<>>, scope |-> <<>>, title |-> <<>>]

\* section_patterns: the section a stripped line opens, "" when it opens none
SectionHeader(line) ==
    IF Len(line) = 3 /\ line[1] = "[" /\ line[3] = "]"
       /\ LowerTok(line[2]) \in {"body", "todo", "footer"}
    THEN LowerTok(line[2]) ELSE ""

\* CommitParser._parse_todo_line on a stripped line: the todo items and the current
\* category after the line (an unset category is <<>>).
\* todo_category_pattern is ^@(.+?)\s*$ and todo_item_pattern is ^-\s+(.+)$
_parse_todo_line(line, todo_items, current_category) ==
    IF Len(line) >= 2 /\ line[1] = "@"
    THEN [todo_items |-> todo_items, current_category |-> Tail(line)]
    ELSE IF Len(line) >= 3 /\ line[1] = "-" /\ IsSpace(line[2])
    THEN [todo_items |->
              Append(todo_items,
                     [category |-> IF current_category = <<>> THEN General
                                   ELSE current_category,
                      task |-> Slice(line, LStripFrom(line, 2), Len(line))]),
          current_category |-> current_category]
    ELSE [todo_items |-> todo_items, current_category |-> current_category]

\* CommitParser.parse: the loop over lines[1:]
RECURSIVE ParseSections(_, _, _)
ParseSections(lines, i, st) ==
    IF i > Len(lines) THEN st
    ELSE LET line == Strip(lines[i]) IN
         IF SectionHeader(line) # ""
         THEN ParseSections(lines, i + 1, [st EXCEPT !.current_section = SectionHeader(line)])
         ELSE IF line = <<>> THEN ParseSections(lines, i + 1, st)
         ELSE IF st.current_section = "body"
         THEN ParseSections(lines, i + 1, [st EXCEPT !.body_lines = Append(st.body_lines, line)])
         ELSE IF st.current_section = "todo"
         THEN LET t == _parse_todo_line(line, st.todo_items, st.current_category)
              IN  ParseSections(lines, i + 1,
                      [st EXCEPT !.todo_items = t.todo_items,
                                 !.current_category = t.current_category])
         ELSE IF st.current_section = "footer"
         THEN ParseSections(lines, i + 1,
                  [st EXCEPT !.footer_lines = Append(st.footer_lines, line)])
         ELSE ParseSections(lines, i + 1, st)

\* what parse gives when it raises ValueError
ParseRaised ==
    [raised |-> TRUE, type |-> <<>>, scope |-> <<>>, title |-> <<>>, body |-> <<>>,
     todos |-> <<>>, footer |-> <<>>, breaking |-> FALSE]

\* CommitParser.parse: the CommitData returned, or raised = TRUE for a ValueError
CommitParser_parse(commit_message) ==
    LET lines == SplitLines(Strip(commit_message))
        match == title_pattern(Strip(lines[1]))
        commit_type_raw == Strip(match.type)
        commit_type == IF StartsWith(commit_type_raw, <<"!">>) THEN Upper(commit_type_raw)
                       ELSE Lower(commit_type_raw)
        st == ParseSections(Tail(lines), 1,
                  [current_section |-> "", current_category |-> <<>>,
                   body_lines |-> <<>>, todo_items |-> <<>>, footer_lines |-> <<>>])
    IN  IF ~match.ok THEN ParseRaised
        ELSE IF commit_type \notin CommitParser_COMMIT_TYPES THEN ParseRaised
        ELSE [raised |-> FALSE, type |-> commit_type, scope |-> match.scope,
              title |-> Strip(match.title), body |-> st.body_lines,
              todos |-> st.todo_items, footer |-> st.footer_lines,
              breaking |-> StartsWith(commit_type, <<"!">>)]

-----------------------------------------------------------------------------
(* domains/reporting/daily.py: DailyReporter._parse_existing_todos *)

\* line.startswith('##')
StartsWithHashes(line) == line # <<>> /\ line[1] \in {TodoHeading, BranchHeading, "##"}

\* re.search(r'\(#(\d+)\)\s*$', task) on a stripped task: where the reference
\* "(#n)" that ends the task starts, 0 when the task does not end with one
IssueRefStart(task) ==
    LET starts == {p \in 1..Len(task) :
                      /\ MatchAt(task, <<"(", "#">>, p)
                      /\ p + 3 <= Len(task)
                      /\ task[Len(task)] = ")"
                      /\ \A k \in (p + 2)..(Len(task) - 1) : IsDigit(task[k])}
    IN  IF starts = {} THEN 0 ELSE Min(starts)

\* the TodoItem built from a line that starts with "- [" and has a fourth character
TodoItemOf(line, current_category) ==
    LET task == Strip(Slice(line, 7, Len(line)))
        p == IssueRefStart(task)
    IN  [category |-> current_category,
         task |-> IF p # 0 THEN Strip(Slice(task, 1, p - 1)) ELSE task,
         completed |-> line[4] = "x",
         issue_ref |-> IF p # 0 THEN Slice(task, p + 1, Len(task) - 1)
                       ELSE IF StartsWith(task, <<"#">>)
                       THEN Slice(task, 1, Min({k \in 1..(Len(task) + 1) :
                                                  k > Len(task) \/ IsSpace(task[k])}) - 1)
                       ELSE <<>>,
         issue_number |-> IF p # 0 THEN ToInt(Slice(task, p + 2, Len(task) - 1)) ELSE 0]

\* _parse_existing_todos: the loop over the lines of the body; raised = TRUE when
\* line[3] is read from a line of three characters (IndexError)
RECURSIVE ExistingTodoLines(_, _, _)
ExistingTodoLines(lines, i, st) ==
    IF i > Len(lines) \/ st.raised THEN st
    ELSE LET line == Strip(lines[i]) IN
         IF Contains(line, <<TodoHeading>>) \/ Contains(line, <<"[", "Todo", "]">>)
         THEN ExistingTodoLines(lines, i + 1, [st EXCEPT !.in_todo_section = TRUE])
         ELSE IF st.in_todo_section /\ StartsWithHashes(line)
         THEN ExistingTodoLines(lines, i + 1, [st EXCEPT !.in_todo_section = FALSE])
         ELSE IF ~st.in_todo_section THEN ExistingTodoLines(lines, i + 1, st)
         ELSE IF StartsWith(line, <<"@">>)
         THEN ExistingTodoLines(lines, i + 1,
                  [st EXCEPT !.current_category = Strip(Tail(line))])
         ELSE IF StartsWith(line, <<"-", SP, "[">>)
         THEN IF Len(line) < 4
              THEN [st EXCEPT !.raised = TRUE, !.todos = <<>>]
              ELSE ExistingTodoLines(lines, i + 1,
                       [st EXCEPT !.todos = Append(st.todos,
                                                   TodoItemOf(line, st.current_category))])
         ELSE ExistingTodoLines(lines, i + 1, st)

\* DailyReporter._parse_existing_todos
_parse_existing_todos(issue_body) ==
    LET st == ExistingTodoLines(SplitLines(issue_body), 1,
                  [raised |-> FALSE, todos |-> <<>>, current_category |-> General,
                   in_todo_section |-> FALSE])
    IN  IF issue_body = <<>> THEN [raised |-> FALSE, todos |-> <<>>]
        ELSE [raised |-> st.raised, todos |-> st.todos]

-----------------------------------------------------------------------------
(* main(): one invocation per pushed commit *)

LedIdle == [stage |-> "idle", existing |-> <<>>, new |-> <<>>, merged |-> <<>>,
            body |-> <<>>, parsed |-> <<>>]

\* what parse_commit_message gives for None
NoCommitData ==
    [ok |-> FALSE, type |-> <<>>, description |-> "", title |-> <<>>,
     body |-> <<>>, todo |-> <<>>, footer |-> <<>>]

ComIdle ==
    [stage |-> "idle", message |-> <<>>, fresh |-> FALSE, data |-> NoCommitData,
     new_todos |-> <<>>, all_todos |-> <<>>, section |-> <<>>, parsed |-> ParseRaised]

DocIdle ==
    [stage |-> "idle", body |-> <<>>, content |-> [branches |-> <<>>, todos |-> <<>>],
     existing |-> [raised |-> FALSE, todos |-> <<>>]]

EmptyContent == [branches |-> <<>>, todos |-> <<>>]

IdleRun ==
    [pc |-> "idle", head |-> "", branch |-> <<>>, commits |-> <<>>, listing |-> <<>>,
     today_issue |-> 0, existing_content |-> EmptyContent, previous_todos |-> <<>>,
     i |-> 1, filtered |-> <<>>, seen_messages |-> {}, log |-> <<>>, closed |-> <<>>]

\* what is kept of an invocation that has returned or raised: its outcome, the
\* commits it kept after filtering, the store calls it made, the issues it closed
Finished(rec, pc) ==
    [IdleRun EXCEPT !.pc = pc, !.head = rec.head, !.filtered = rec.filtered,
                    !.log = rec.log, !.closed = rec.closed]

Init ==
    /\ issues = <<>>
    /\ today = 1
    /\ run = [r \in RunIds |-> IdleRun]
    /\ nruns = 0
    /\ led = LedIdle
    /\ com = ComIdle
    /\ doc = DocIdle

NoActive == \A r \in RunIds : run[r].pc \in {"idle", "done", "failed"}

Settle(rec) == IF rec.pc \in {"done", "failed"} THEN Finished(rec, rec.pc) ELSE rec

\* the next issue of the listing, from position i on, that the loop over previous
\* issues closes; 0 when there is none
RECURSIVE NextPrev(_, _, _)
NextPrev(listing, today_issue, i) ==
    IF i > Len(listing) THEN 0
    ELSE IF listing[i].number # today_issue /\ is_daily_log_issue(listing[i].title) THEN i
    ELSE NextPrev(listing, today_issue, i + 1)

AfterLocate(listing, today_issue, i) ==
    IF NextPrev(listing, today_issue, i) = 0 THEN "filter" ELSE "rotate"

\* main: the pushed commit c, one of heads, is read, the open daily-log issues are listed and
\* today's issue, if there is one, is parsed.  ok = FALSE: the store call raises.
BeginWith(r, ok, heads) ==
    /\ run[r].pc \in {"idle", "done", "failed"}
    /\ nruns < MaxRuns
    /\ nruns' = nruns + 1
    /\ LET listing == OpenDaily(issues, Len(issues))
           found == FirstOf(SelectSeq(listing, LAMBDA x : IsTodayTitle(x.title, today)))
           today_issue == IF found = <<>> THEN 0 ELSE found[1].number
           existing_content == IF found = <<>> THEN EmptyContent
                               ELSE parse_existing_issue(found[1].body)
           pc1 == AfterLocate(listing, today_issue, 1)
       IN  \E c \in heads, b \in Branches :
             LET start == [IdleRun EXCEPT !.head = c, !.branch = b]
                 children == IF Parents(c) = 2 THEN get_merge_commits(c) ELSE <<>>
             IN  IF Excluded(Message(c))
                 THEN run' = [run EXCEPT ![r] = Finished(start, "done")]
                 ELSE IF ~ok
                 THEN run' = [run EXCEPT ![r] = Finished(start, "failed")]
                 ELSE run' = [run EXCEPT ![r] =
                          [start EXCEPT !.pc = pc1,
                                        !.commits = IF children = <<>> THEN <<c>> ELSE children,
                                        !.listing = listing,
                                        !.today_issue = today_issue,
                                        !.existing_content = existing_content]]
    /\ UNCHANGED <<issues, today, led, com, doc>>

\* main, started for any pushed commit
Begin(r, ok) == BeginWith(r, ok, CommitIds)

\* [(False, todo[1]) for todo in prev_content['todos'] if not todo[0]]
Unchecked(todos) ==
    LET open == SelectSeq(todos, LAMBDA e : ~e.checked) IN
    [k \in 1..Len(open) |-> Entry(FALSE, open[k].text)]

\* main: one iteration of the loop over previous issues that closes an issue
Rotate(r, ok) ==
    /\ run[r].pc = "rotate"
    /\ LET k == NextPrev(run[r].listing, run[r].today_issue, run[r].i)
           issue == run[r].listing[k]
           prev_content == parse_existing_issue(issue.body)
           more == NextPrev(run[r].listing, run[r].today_issue, k + 1) # 0
       IN  IF ok
           THEN /\ issues' = [issues EXCEPT ![issue.number].state = "closed"]
                /\ run' = [run EXCEPT ![r] =
                       [@ EXCEPT !.previous_todos = @ \o Unchecked(prev_content.todos),
                                 !.i = IF more THEN k + 1 ELSE 1,
                                 !.log = Append(@, "close"),
                                 !.closed = Append(@, issue.number),
                                 !.pc = IF more THEN "rotate" ELSE "filter"]]
           ELSE /\ run' = [run EXCEPT ![r] = Finished(run[r], "failed")]
                /\ UNCHANGED issues
    /\ UNCHANGED <<today, nruns, led, com, doc>>

\* main: one iteration of the filtering loop; after the last one
\* commits_to_process = filtered_commits and the run returns if it is empty
FilterStep(r) ==
    /\ run[r].pc = "filter"
    /\ LET c == run[r].commits[run[r].i]
           msg == Strip(Message(c))
           merge == is_merge_commit_message(msg)
           children == IF merge /\ Parents(c) = 2 THEN get_merge_commits(c) ELSE <<>>
           commits == run[r].commits \o children
           add == /\ ~merge
                  /\ msg \notin run[r].seen_messages
                  /\ ~is_commit_already_logged(msg, run[r].existing_content)
           filtered == IF add THEN Append(run[r].filtered, c) ELSE run[r].filtered
           last == run[r].i + 1 > Len(commits)
       IN  /\ Len(commits) <= MaxCommits
           /\ run' = [run EXCEPT ![r] = Settle(
                  [run[r] EXCEPT !.commits = commits,
                            !.filtered = filtered,
                            !.seen_messages = IF add THEN @ \cup {msg} ELSE @,
                            !.i = IF last THEN 1 ELSE @ + 1,
                            !.pc = IF ~last THEN "filter"
                                   ELSE IF filtered = <<>> THEN "done" ELSE "process"])]
    /\ UNCHANGED <<issues, today, nruns, led, com, doc>>

\* is_issue_todo
is_issue_todo(todo_text) == StartsWith(Strip(todo_text), <<"(issue)">>)

\* process_todo_items with create_issue_from_todo: the todos with every "(issue)"
\* item replaced by the number of the issue created for it, and the store afterwards
RECURSIVE process_todo_items(_, _, _, _, _, _)
process_todo_items(todos, k, current_category, processed, store, parent) ==
    IF k > Len(todos) THEN [todos |-> processed, store |-> store]
    ELSE LET e == todos[k] IN
         IF IsMarker(e.text)
         THEN process_todo_items(todos, k + 1, CategoryOf(e.text), Append(processed, e),
                                 store, parent)
         ELSE IF is_issue_todo(e.text)
         THEN LET n == Len(store) + 1
                  title == Strip(Slice(Strip(e.text), 2, Len(Strip(e.text))))
                  created == [title |-> <<"[">> \o current_category \o <<"]", SP>> \o title,
                              body |-> title, state |-> "open", daily |-> FALSE,
                              comments |-> 0]
              IN  process_todo_items(todos, k + 1, current_category,
                      Append(processed, Entry(e.checked, <<"#">> \o NumStr(n))),
                      [Append(store, created) EXCEPT ![parent].comments = @ + 1], parent)
         ELSE process_todo_items(todos, k + 1, current_category, Append(processed, e),
                                 store, parent)

\* create_commit_section: the comments it posts on the issues the message refers to
RECURSIVE PostComments(_, _)
PostComments(store, nums) ==
    IF nums = {} THEN store
    ELSE LET n == Min(nums) IN
         PostComments(IF n \in 1..Len(store) THEN [store EXCEPT ![n].comments = @ + 1] ELSE store,
                      nums \ {n})

RECURSIVE SortedSeq(_)
SortedSeq(nums) ==
    IF nums = {} THEN <<>> ELSE <<Min(nums)>> \o SortedSeq(nums \ {Min(nums)})

\* create_commit_section: related_issues
RelatedIssues(store, commit_data) ==
    LET daily == FirstOf(SelectSeq(OpenDaily(store, Len(store)),
                                   LAMBDA x : StartsWith(x.title, DailyLogPrefix)))
        refs == SelectSeq(SortedSeq(IssueNumbers(FullMessage(commit_data))),
                          LAMBDA n : n \in 1..Len(store))
    IN  (IF daily = <<>> THEN <<>>
         ELSE << <<"Daily Development Log", ":", SP, "#">> \o NumStr(daily[1].number) >>)
        \o [k \in 1..Len(refs) |-> <<"Related to", SP, "#">> \o NumStr(refs[k])]

\* a main that parses the record body again just before it writes
ExistingContent_Reread(r) == parse_existing_issue(issues[run[r].today_issue].body)

\* main: existing_content, as parsed from today's issue when the run located it
ExistingContent(r) == run[r].existing_content

\* main: one iteration of the loop over the filtered commits.  ok = FALSE: the
\* final store call of the iteration (today_issue.edit or repo.create_issue) raises.
ProcessCommit(r, ok) ==
    /\ run[r].pc = "process"
    /\ LET c == run[r].filtered[run[r].i]
           commit_data == parse_commit_message(Message(c))
           last == run[r].i + 1 > Len(run[r].filtered)
           pc1 == IF last THEN "done" ELSE "process"
           refs == {n \in IssueNumbers(FullMessage(commit_data)) : n \in 1..Len(issues)}
           commented == PostComments(issues, refs)
           comment_log == [k \in 1..Cardinality(refs) |-> "comment"]
           commit_details == CommitSectionText(commit_data, Sha7(c), Author, TimeString,
                                               RelatedIssues(issues, commit_data))
           branch_title == Title(run[r].branch)
       IN  IF ~commit_data.ok
           THEN /\ run' = [run EXCEPT ![r] = Settle([run[r] EXCEPT !.i = @ + 1, !.pc = pc1])]
                /\ UNCHANGED issues
           ELSE IF run[r].today_issue # 0
           THEN LET old == DictIdx(ExistingContent(r).branches, branch_title, 1)
                    branches == DictSet(ExistingContent(r).branches, branch_title,
                                    IF old = 0 THEN commit_details
                                    ELSE ExistingContent(r).branches[old].content
                                         \o <<NL, NL>> \o commit_details)
                    new_todos == CommitTodos(commit_data.todo)
                    merged == merge_todos(ExistingContent(r).todos, new_todos)
                    all_todos == IF run[r].previous_todos # <<>>
                                 THEN merge_todos(merged, run[r].previous_todos)
                                 ELSE merged
                    pt == process_todo_items(all_todos, 1, General, <<>>, commented,
                                             run[r].today_issue)
                    created_log == [k \in 1..(Len(pt.store) - Len(issues)) |-> "create_task"]
                    updated_body ==
                        RecordBody(IssueTitle(today),
                                   Join([k \in 1..Len(branches) |->
                                            BranchSection(branches[k].name, branches[k].content)],
                                        <<>>),
                                   create_todo_section(pt.todos))
                IN  IF ok
                    THEN /\ issues' = [pt.store EXCEPT ![run[r].today_issue].body = updated_body]
                         /\ run' = [run EXCEPT ![r] = Settle(
                                [run[r] EXCEPT !.existing_content.branches = branches,
                                          !.i = @ + 1,
                                          !.pc = pc1,
                                          !.log = @ \o comment_log \o created_log \o <<"edit">>])]
                    ELSE /\ issues' = pt.store
                         /\ run' = [run EXCEPT ![r] = Settle(
                                [run[r] EXCEPT !.pc = "failed",
                                          !.log = @ \o comment_log \o created_log])]
           ELSE LET new_todos == CommitTodosNewIssue(commit_data.todo)
                    all_todos == merge_todos(new_todos, run[r].previous_todos)
                    body == RecordBody(IssueTitle(today),
                                       BranchSection(branch_title, commit_details),
                                       create_todo_section(all_todos))
                    new_issue == [title |-> IssueTitle(today), body |-> body, state |-> "open",
                                  daily |-> TRUE, comments |-> 0]
                IN  IF ok
                    THEN /\ issues' = Append(commented, new_issue)
                         /\ run' = [run EXCEPT ![r] = Settle(
                                [run[r] EXCEPT !.i = @ + 1,
                                          !.pc = pc1,
                                          !.log = @ \o comment_log \o <<"create">>])]
                    ELSE /\ issues' = commented
                         /\ run' = [run EXCEPT ![r] = Settle(
                                [run[r] EXCEPT !.pc = "failed", !.log = @ \o comment_log])]
    /\ UNCHANGED <<today, nruns, led, com, doc>>

\* a todo line with the given box starts after position p of the body
BoxAt(body, p, box) == MatchAt(body, <<NL, "-", SP, "[", box, "]", SP>>, p)

\* the number of ticked todo lines in the store
RECURSIVE CheckedCount(_, _)
CheckedCount(store, n) ==
    IF n = 0 THEN 0
    ELSE Cardinality({p \in 1..Len(store[n].body) : BoxAt(store[n].body, p, "x")})
         + CheckedCount(store, n - 1)

\* the todo texts the user ticks
UserTicks == {<<"y">>}

\* a user ticks an open todo of an open daily log on the issue page
UserCheck(n, p) ==
    /\ NoActive
    /\ issues[n].state = "open" /\ issues[n].daily
    /\ BoxAt(issues[n].body, p, SP)
    /\ \E t \in UserTicks : MatchAt(issues[n].body, t \o <<NL>>, p + 7)
    /\ CheckedCount(issues, Len(issues)) < MaxChecked
    /\ issues' = [issues EXCEPT ![n].body[p + 4] = "x"]
    /\ UNCHANGED <<today, run, nruns, led, com, doc>>

\* midnight passes between two invocations
AdvanceDay ==
    /\ NoActive
    /\ today < MaxDay
    /\ today' = today + 1
    /\ UNCHANGED <<issues, run, nruns, led, com, doc>>

Next ==
    \/ \E ok \in BOOLEAN : Begin(1, ok)
    \/ \E ok \in BOOLEAN : Rotate(1, ok)
    \/ FilterStep(1)
    \/ \E ok \in BOOLEAN : ProcessCommit(1, ok)
    \/ \E n \in 1..Len(issues) : \E p \in 1..Len(issues[n].body) : UserCheck(n, p)
    \/ AdvanceDay

Spec == Init /\ [][Next]_vars

-----------------------------------------------------------------------------
(* The ledger pipeline: merge_todos, then create_todo_section written into *)
(* a record body, then parse_existing_issue on that body.                  *)

MaxExisting == 3
MaxNew == 2

\* the entries the todo lists are drawn from
TodoPool ==
    { Entry(FALSE, <<"@", "Docs">>), Entry(FALSE, <<"@", "docs">>),
      Entry(FALSE, <<"@", "General">>),
      Entry(FALSE, <<"x">>), Entry(TRUE, <<"x">>), Entry(FALSE, <<"y">>) }

TodoLists(n) == UNION { [1..k -> TodoPool] : k \in 0..n }

\* no text occurs twice among the items of the list
DistinctTexts(l) ==
    \A i, j \in 1..Len(l) :
        (i < j /\ ~IsMarker(l[i].text) /\ ~IsMarker(l[j].text)) => l[i].text # l[j].text

Ledgers(n) == {l \in TodoLists(n) : DistinctTexts(l)}

\* the spellings of one word that differ only in letter case
CaseClasses ==
    { {"Docs", "docs", "DOCS"}, {"General", "general", "GENERAL"}, {"A", "a"}, {"B", "b"} }

\* a name up to letter case
Fold(s) ==
    [i \in 1..Len(s) |->
        IF \E cl \in CaseClasses : s[i] \in cl
        THEN CHOOSE cl \in CaseClasses : s[i] \in cl
        ELSE {s[i]}]

\* no category has two markers in the list: create_todo_section writes one block
\* per category, so a list read back from a record body has one marker for each
UniqueCategories(l) ==
    \A i, j \in 1..Len(l) :
        (i < j /\ IsMarker(l[i].text) /\ IsMarker(l[j].text))
            => Fold(CategoryOf(l[i].text)) # Fold(CategoryOf(l[j].text))

ExistingLedgers(n) == {l \in Ledgers(n) : UniqueCategories(l)}

LedgerTitle == <<"<cal>", SP, "Daily Development Log">>

LedgerInit ==
    /\ issues = <<>>
    /\ today = 1
    /\ run = [r \in RunIds |-> IdleRun]
    /\ nruns = 0
    /\ \E e \in ExistingLedgers(MaxExisting), n \in Ledgers(MaxNew) :
          led = [LedIdle EXCEPT !.stage = "input", !.existing = e, !.new = n]
    /\ com = ComIdle
    /\ doc = DocIdle

\* all_todos = merge_todos(existing_todos, new_todos)
LedgerMerge ==
    /\ led.stage = "input"
    /\ led' = [led EXCEPT !.stage = "merged",
                          !.merged = merge_todos(led.existing, led.new)]
    /\ UNCHANGED <<issues, today, run, nruns, com, doc>>

\* the body written with create_todo_section(all_todos) as its Todo region
LedgerRender ==
    /\ led.stage = "merged"
    /\ led' = [led EXCEPT !.stage = "rendered",
                          !.body = RecordBody(LedgerTitle, <<>>, create_todo_section(led.merged))]
    /\ UNCHANGED <<issues, today, run, nruns, com, doc>>

\* the next run reads the body back
LedgerParse ==
    /\ led.stage = "rendered"
    /\ led' = [led EXCEPT !.stage = "parsed",
                          !.parsed = parse_existing_issue(led.body).todos]
    /\ UNCHANGED <<issues, today, run, nruns, com, doc>>

LedgerNext == LedgerMerge \/ LedgerRender \/ LedgerParse

SpecLedger == LedgerInit /\ [][LedgerNext]_vars

-----------------------------------------------------------------------------
(* Reading a todo list as a ledger *)

\* the category each position of the list lies in: the name of the last marker
\* before it, General when there is none
RECURSIVE CategoryAt(_, _)
CategoryAt(todos, i) ==
    IF i = 0 THEN General
    ELSE IF IsMarker(todos[i].text) THEN CategoryOf(todos[i].text)
    ELSE CategoryAt(todos, i - 1)

ItemPositions(todos) == {i \in 1..Len(todos) : ~IsMarker(todos[i].text)}

\* the names of the categories that hold an item
CategoryNames(todos) == {CategoryAt(todos, i) : i \in ItemPositions(todos)}

\* the items (text, checked) of one category, in order
ItemsIn(todos, cat) ==
    SelectSeq([i \in 1..Len(todos) |-> [e |-> todos[i], cat |-> CategoryAt(todos, i)]],
              LAMBDA p : ~IsMarker(p.e.text) /\ p.cat = cat)

\* entry identities (case-insensitive category, text) with a given checked state
Identities(todos, checked) ==
    { <<Fold(CategoryAt(todos, i)), todos[i].text>> :
        i \in {j \in ItemPositions(todos) : todos[j].checked = checked} }

-----------------------------------------------------------------------------
(* Claims about the ledger pipeline *)

\* C1: round trip - parsing the body whose Todo region is create_todo_section(t),
\* t returned by merge_todos, yields the same categories under the same names with
\* the same item texts in the same order and the same checked states.
C1_RoundTrip ==
    led.stage = "parsed" =>
        /\ CategoryNames(led.parsed) = CategoryNames(led.merged)
        /\ \A c \in CategoryNames(led.merged) : ItemsIn(led.parsed, c) = ItemsIn(led.merged, c)

\* C2: monotonic completion - every entry identity checked in existing_todos or in
\* new_todos is in the merged result checked, and the result holds no unchecked
\* entry of that identity.
C2_MonotonicCompletion ==
    led.stage = "merged" =>
        \A id \in Identities(led.existing, TRUE) \cup Identities(led.new, TRUE) :
            /\ id \in Identities(led.merged, TRUE)
            /\ id \notin Identities(led.merged, FALSE)

\* C3: idempotent merge - merge_todos(L, L) = L for every todo list L.
C3_IdempotentMerge ==
    (led.stage = "merged" /\ led.new = led.existing) => led.merged = led.existing


\* the markers of the list whose category has the given case-insensitive key
MarkersOf(todos, key) ==
    {i \in 1..Len(todos) : IsMarker(todos[i].text) /\ Fold(CategoryOf(todos[i].text)) = key}

\* the spelling under which the list registers the category first
FirstSpelling(todos, key) == CategoryOf(todos[Min(MarkersOf(todos, key))].text)

\* the positions in a body where the summary line of a block named name starts
BlockStarts(body, name) ==
    {i \in 1..Len(body) : MatchAt(body, <<"<summary>", "<tabs>", SP>> \o name \o <<SP, "(">>, i)}

\* the lines of the block whose summary starts at position i
BlockLines(body, i) == SplitLines(Slice(body, i, Find(body, <<"</details>">>, i) - 1))

HasItemLine(lines, text) ==
    \E k \in 1..Len(lines) : IsCheckbox(lines[k]) /\ Slice(lines[k], 7, Len(lines[k])) = text

\* the incoming items filed under another spelling of the category key that the
\* ledger does not hold yet
IncomingUnder(existing, new, key) ==
    {j \in ItemPositions(new) :
        /\ Fold(CategoryAt(new, j)) = key
        /\ CategoryAt(new, j) # FirstSpelling(existing, key)
        /\ \A i \in ItemPositions(existing) : existing[i].text # new[j].text
        /\ \A i \in ItemPositions(new) : i < j => new[i].text # new[j].text}

Spellings(todos, key) == {CategoryOf(todos[i].text) : i \in MarkersOf(todos, key)}

-----------------------------------------------------------------------------
(* Reading a record body as it is displayed *)

CountTok(s, t) == Cardinality({i \in 1..Len(s) : s[i] = t})

\* the positions where the summary line of a Todo block starts
SummaryStarts(body) == {i \in 1..Len(body) : MatchAt(body, <<"<summary>", "<tabs>", SP>>, i)}

\* the name displayed on the summary line starting at i: the text before the
\* final completion count " (c/t)"
DisplayedName(body, i) ==
    LET close == Find(body, <<"</summary>">>, i)
        opens == {k \in (i + 3)..(close - 1) : MatchAt(body, <<SP, "(">>, k)}
    IN  IF opens = {} THEN Slice(body, i + 3, close - 1)
        ELSE Slice(body, i + 3, (CHOOSE k \in opens : \A m \in opens : m <= k) - 1)

IsBoxLine(line) ==
    /\ Len(line) >= 7
    /\ SubSeq(line, 1, 3) = <<"-", SP, "[">>
    /\ line[4] \in {"x", SP}
    /\ SubSeq(line, 5, 6) = <<"]", SP>>

\* the entries (category name, text, checked) displayed in the Todo region
DisplayedLedger(body) ==
    UNION { LET lines == BlockLines(body, i) IN
            { <<DisplayedName(body, i), Slice(lines[k], 7, Len(lines[k])), lines[k][4] = "x">> :
                k \in {j \in 1..Len(lines) : IsBoxLine(lines[j])} } :
            i \in SummaryStarts(body) }

DailyIssues == {n \in 1..Len(issues) : issues[n].daily}

-----------------------------------------------------------------------------
(* Claims about main() *)

\* C4: commit de-dup across runs - whatever runs have processed a commit, a record
\* holds at most one rendered commit block for it.
C4_OneBlockPerCommit ==
    \A n \in DailyIssues : \A c \in CommitIds :
        Cardinality({p \in 1..Len(issues[n].body) :
                        MatchAt(issues[n].body, <<"Commit:", SP, Sha7(c)>>, p)}) <= 1

\* C5: carry-forward - when a run whose commits bring no todos closes the only
\* prior open record, which displays (A, x, unchecked), (A, y, checked) and
\* (B, z, unchecked), and creates the new day's record, the new record displays
\* exactly (A, x, unchecked) and (B, z, unchecked) and the prior record is closed.
C5_CarryForward ==
    \A r \in RunIds : \A n \in DailyIssues :
        ( /\ run[r].pc = "done"
          /\ run[r].closed = <<n>>
          /\ SelectSeq(run[r].log, LAMBDA w : w # "comment") = <<"close", "create">>
          /\ \A k \in 1..Len(run[r].filtered) :
                parse_commit_message(Message(run[r].filtered[k])).todo = <<>>
          /\ DisplayedLedger(issues[n].body) =
                { <<<<"A">>, <<"x">>, FALSE>>, <<<<"A">>, <<"y">>, TRUE>>,
                  <<<<"B">>, <<"z">>, FALSE>> } )
        => /\ issues[n].state = "closed"
           /\ issues[Len(issues)].state = "open"
           /\ DisplayedLedger(issues[Len(issues)].body) =
                 { <<<<"A">>, <<"x">>, FALSE>>, <<<<"B">>, <<"z">>, FALSE>> }

\* C6: round trip of branch sections - for every record body main has written,
\* parse_existing_issue returns the text of all the commit blocks of the body, each
\* with its closing marker.
C6_BranchRoundTrip ==
    \A n \in DailyIssues :
        LET branches == parse_existing_issue(issues[n].body).branches
            content == Join([k \in 1..Len(branches) |-> branches[k].content], <<NL>>)
        IN  /\ CountTok(content, "Commit:") = CountTok(issues[n].body, "Commit:")
            /\ CountTok(content, "</details>") = CountTok(issues[n].body, "Commit:")

\* C7: at most one open daily record per calendar date.
C7_OneOpenRecordPerDate ==
    \A d \in 1..today :
        Cardinality({n \in DailyIssues :
                        issues[n].state = "open" /\ issues[n].title = IssueTitle(d)}) <= 1

\* C9: a run left with no commit after filtering has made no write to the issue
\* store: it has created, edited and closed nothing and posted no comment.
C9_NoCommitNoWrite ==
    \A r \in RunIds :
        (run[r].pc = "done" /\ run[r].filtered = <<>>) => run[r].log = <<>>

\* C10: failure atomicity - a run in which a store call has failed has made no
\* write to the issue store before it.
C10_FailureAtomicity ==
    \A r \in RunIds : run[r].pc = "failed" => run[r].log = <<>>

\* the commits a finished run has ingested: those it kept after filtering whose
\* message parses
Ingested(r) ==
    {k \in 1..Len(run[r].filtered) : parse_commit_message(Message(run[r].filtered[k])).ok}

\* the writes of a record body (creations and edits) among the store calls of a run
BodyWrites(log) == SelectSeq(log, LAMBDA w : w \in {"create", "edit"})

\* C11: a run that has ingested at least one commit has written today's record
\* body exactly once (one create or one edit), however many commits it ingested.
C11_OneBodyWritePerRun ==
    \A r \in RunIds :
        (run[r].pc = "done" /\ Ingested(r) # {}) => Len(BodyWrites(run[r].log)) = 1

Max(S) == CHOOSE m \in S : \A n \in S : n <= m

SeqRange(s) == {s[k] : k \in 1..Len(s)}

\* the texts of the entries a body displays with the given checked state
DisplayedTexts(body, checked) == {e[2] : e \in {d \in DisplayedLedger(body) : d[3] = checked}}

\* the commits a finished run kept bring no todo of their own
NoCommitTodos(r) ==
    \A k \in 1..Len(run[r].filtered) :
        parse_commit_message(Message(run[r].filtered[k])).todo = <<>>

\* C12: when a run has closed two or more prior open daily records and written
\* today's record, the entries of today's record are unchecked items of the most
\* recently created prior record only.
C12_CarryOnlyNewestPrior ==
    \A r \in RunIds :
        ( /\ run[r].pc = "done"
          /\ Len(run[r].closed) >= 2
          /\ BodyWrites(run[r].log) # <<>>
          /\ NoCommitTodos(r) )
        => \A n \in DailyIssues :
              n > Max(SeqRange(run[r].closed)) =>
                  DisplayedTexts(issues[n].body, FALSE) \cup DisplayedTexts(issues[n].body, TRUE)
                      \subseteq DisplayedTexts(issues[Max(SeqRange(run[r].closed))].body, FALSE)

-----------------------------------------------------------------------------
(* Two invocations of main() racing: the steps of the two slots interleave *)

\* the commits pushed while invocations race
RaceHeads == {"K1", "K2"}

RaceNext ==
    \/ \E r \in RunIds : BeginWith(r, TRUE, RaceHeads)
    \/ \E r \in RunIds : Rotate(r, TRUE)
    \/ \E r \in RunIds : FilterStep(r)
    \/ \E r \in RunIds : ProcessCommit(r, TRUE)

SpecRace == Init /\ [][RaceNext]_vars

\* the body holds a commit block of commit c
HasBlock(body, c) ==
    \E p \in 1..Len(body) : MatchAt(body, <<"Commit:", SP, Sha7(c)>>, p)

\* the todo texts the message of commit c brings
TodoTextsOf(c) ==
    LET m == parse_commit_message(Message(c))
        ts == IF m.ok THEN CommitTodos(m.todo) ELSE <<>>
    IN  {ts[k].text : k \in {j \in 1..Len(ts) : ~IsMarker(ts[j].text)}}

\* the todo texts run r holds: those it read and those of its own commits
HeldTexts(r) ==
    {run[r].existing_content.todos[k].text : k \in 1..Len(run[r].existing_content.todos)}
    \cup {run[r].previous_todos[k].text : k \in 1..Len(run[r].previous_todos)}
    \cup UNION {TodoTextsOf(run[r].filtered[k]) : k \in 1..Len(run[r].filtered)}

\* what run r read of today's record holds no block of commit c
NotReadBy(r, c) ==
    \A k \in 1..Len(run[r].existing_content.branches) :
        ~Contains(run[r].existing_content.branches[k].content, <<"Commit:", SP, Sha7(c)>>)

\* this step is an edit of today's record by run r
EditBy(r) ==
    /\ run[r].pc = "process"
    /\ run[r].today_issue # 0
    /\ Len(BodyWrites(run'[r].log)) = Len(BodyWrites(run[r].log)) + 1

\* C13: lost update - when run r edits today's record after another run q has
\* written to it a commit block that r did not read, the record afterwards holds
\* r's commit block and neither the commit block nor the todos that q added: the
\* later write overwrites the earlier one.
C13_LostUpdate ==
    [][\A r \in RunIds : \A q \in RunIds \ {r} :
          (EditBy(r) /\ run[q].pc = "done") =>
              \A k \in 1..Len(run[q].filtered) :
                  LET c == run[q].filtered[k]
                      t == run[r].today_issue
                  IN  ( /\ HasBlock(issues[t].body, c)
                        /\ NotReadBy(r, c)
                        /\ c \notin SeqRange(run[r].filtered) )
                      => /\ ~HasBlock(issues'[t].body, c)
                         /\ HasBlock(issues'[t].body, run[r].filtered[run[r].i])
                         /\ \A x \in TodoTextsOf(c) \ HeldTexts(r) :
                               x \notin DisplayedTexts(issues'[t].body, FALSE)
      ]_vars

\* both runs have edited the only daily record, one for K1 and one for K2, and the
\* record holds neither the commit block of K1 nor its todo x: K2's run, which read
\* the body before K1's run wrote, has written last
C13_Witness ==
    /\ Cardinality(DailyIssues) = 1
    /\ \A r \in RunIds : run[r].pc = "done" /\ "edit" \in SeqRange(run[r].log)
    /\ {run[r].head : r \in RunIds} = {"K1", "K2"}
    /\ \A n \in DailyIssues :
          /\ ~HasBlock(issues[n].body, "K1")
          /\ HasBlock(issues[n].body, "K2")
          /\ <<"x">> \notin DisplayedTexts(issues[n].body, FALSE)




-----------------------------------------------------------------------------
(* One commit message through the parsers: parse_commit_message, then the    *)
(* todos main makes of its [Todo] section, merge_todos against an empty      *)
(* ledger and create_todo_section; and CommitParser.parse of the same text.  *)

MaxParts == 3

\* first lines of a commit message
CommitHeads ==
    { <<"[", "feat", "]", SP, "a">>, <<"[", "perf", "]", SP, "a">>,
      <<"[", "wip", "]", SP, "a">>, <<"[", "!", "hotfix", "]", SP, "a">>, <<"hello">> }

\* what may follow the first line: a section with its content, or a plain line
CommitParts ==
    { <<"[", "Body", "]", NL, "c">>,
      <<"[", "Todo", "]", NL, "-", SP, "x">>,
      <<"[", "Todo", "]", NL, "@", "A", NL, "-", SP, "y">>,
      <<"[", "Footer", "]", NL, "#", "1">>,
      <<"[", "fix", "]", SP, "b">> }

LoginMessage ==
    <<"[", "feat", "]", SP, "add", SP, "login", NL, "[", "Todo", "]", NL,
      "@", "Security", NL, "-", SP, "add", SP, "2FA", NL,
      "-", SP, "[", "done", SP, "already?", SP, "no", "]">>

CommitMessages ==
    {LoginMessage} \cup
    { Join(<<h>> \o ps, <<NL>>) :
        h \in CommitHeads, ps \in UNION {[1..k -> CommitParts] : k \in 0..MaxParts} }

CommitInit ==
    /\ issues = <<>>
    /\ today = 1
    /\ run = [r \in RunIds |-> IdleRun]
    /\ nruns = 0
    /\ led = LedIdle
    /\ doc = DocIdle
    /\ \E m \in CommitMessages : com = [ComIdle EXCEPT !.stage = "input", !.message = m]

\* commit_data = parse_commit_message(commit.commit.message)
ComParse ==
    /\ com.stage = "input"
    /\ com' = [com EXCEPT !.stage = "parsed", !.data = parse_commit_message(com.message)]
    /\ UNCHANGED <<issues, today, run, nruns, led, doc>>

\* main: new_todos of the commit; fresh = TRUE when the record is being created,
\* FALSE when today's record exists.  A commit that did not parse is skipped.
ComTodos ==
    /\ com.stage = "parsed"
    /\ com.data.ok
    /\ \E fresh \in BOOLEAN :
          com' = [com EXCEPT !.stage = "todos", !.fresh = fresh,
                             !.new_todos = IF fresh THEN CommitTodosNewIssue(com.data.todo)
                                           ELSE CommitTodos(com.data.todo)]
    /\ UNCHANGED <<issues, today, run, nruns, led, doc>>

\* main: all_todos, the record holding no todos and nothing being carried over
ComMerge ==
    /\ com.stage = "todos"
    /\ com' = [com EXCEPT !.stage = "merged",
                          !.all_todos = IF com.fresh THEN merge_todos(com.new_todos, <<>>)
                                        ELSE merge_todos(<<>>, com.new_todos)]
    /\ UNCHANGED <<issues, today, run, nruns, led, doc>>

\* todo_section = create_todo_section(all_todos)
ComRender ==
    /\ com.stage = "merged"
    /\ com' = [com EXCEPT !.stage = "rendered", !.section = create_todo_section(com.all_todos)]
    /\ UNCHANGED <<issues, today, run, nruns, led, doc>>

\* CommitParser().parse(commit_message)
ComClassify ==
    /\ com.stage = "input"
    /\ com' = [com EXCEPT !.stage = "classified", !.parsed = CommitParser_parse(com.message)]
    /\ UNCHANGED <<issues, today, run, nruns, led, doc>>

CommitNext == ComParse \/ ComTodos \/ ComMerge \/ ComRender \/ ComClassify

SpecCommit == CommitInit /\ [][CommitNext]_vars

-----------------------------------------------------------------------------
(* One record body through parse_existing_issue and _parse_existing_todos *)

MaxBodyLines == 4

\* lines of a record body, well-formed and not
BodyLines ==
    { <<TodoHeading>>, <<BranchHeading>>, <<>>,
      <<"-", SP, "[", SP, "]", SP, "x">>,
      <<"-", SP, "[", "x", "]", SP, "y", SP, "(", "#", "1", ")">>,
      <<"-", SP, "[">>,
      <<"@", "A">> }

Bodies == { Join(ls, <<NL>>) : ls \in UNION {[1..k -> BodyLines] : k \in 0..MaxBodyLines} }

BodyInit ==
    /\ issues = <<>>
    /\ today = 1
    /\ run = [r \in RunIds |-> IdleRun]
    /\ nruns = 0
    /\ led = LedIdle
    /\ com = ComIdle
    /\ \E b \in Bodies : doc = [DocIdle EXCEPT !.stage = "input", !.body = b]

\* existing_content = parse_existing_issue(today_issue.body)
DocParseIssue ==
    /\ doc.stage = "input"
    /\ doc' = [doc EXCEPT !.stage = "issue", !.content = parse_existing_issue(doc.body)]
    /\ UNCHANGED <<issues, today, run, nruns, led, com>>

\* previous_todos = self._parse_existing_todos(issue.get('body', ''))
DocParseTodos ==
    /\ doc.stage = "input"
    /\ doc' = [doc EXCEPT !.stage = "todos", !.existing = _parse_existing_todos(doc.body)]
    /\ UNCHANGED <<issues, today, run, nruns, led, com>>

BodyNext == DocParseIssue \/ DocParseTodos

SpecBody == BodyInit /\ [][BodyNext]_vars


-----------------------------------------------------------------------------
(* Claims about the commit-message parsers *)

\* the first line of the message that is not blank, <<>> when every line is
FirstNonEmptyLine(message) ==
    LET lines == SplitLines(message)
        full == {k \in 1..Len(lines) : Strip(lines[k]) # <<>>}
    IN  IF full = {} THEN <<>> ELSE Strip(lines[Min(full)])

\* the line reads "[<type>] <title>" with a type and a title
HasTitleForm(line) ==
    /\ line # <<>>
    /\ line[1] = "["
    /\ \E k \in 3..(Len(line) - 2) : line[k] = "]" /\ line[k + 1] = SP

\* C14: parse_commit_message returns None for every message whose first non-empty
\* line is not of the form "[<type>] <title>", whatever the later lines contain.
C14_RejectsUntitled ==
    com.stage = "parsed" =>
        (~HasTitleForm(FirstNonEmptyLine(com.message)) => ~com.data.ok)


-----------------------------------------------------------------------------
(* main() on merge commits: the pushes are merges and what they bring in *)

\* the commits pushed: a plain commit, a merge of K1 and K1, K2, a merge whose
\* expansion holds a commit with a merge message, and that commit itself
MergeHeads == {"K1", "M1", "M2", "M3"}

MergeNext ==
    \/ BeginWith(1, TRUE, MergeHeads)
    \/ Rotate(1, TRUE)
    \/ FilterStep(1)
    \/ ProcessCommit(1, TRUE)

SpecMerge == Init /\ [][MergeNext]_vars

\* the message of commit c begins with the word Merge
MergeMessage(c) == Message(c)[1] = "Merge"

\* the item lines displayed in the Todo region of a body
DisplayedItems(body) == {e[2] : e \in DisplayedLedger(body)}

\* C15: a commit whose message begins with "Merge" is never among the commits a run
\* parses, in the initial list or after merge expansion, and no record holds a commit
\* block of it or a todo entry that only its message brings.
C15_MergeNeverIngested ==
    /\ \A r \in RunIds : \A k \in 1..Len(run[r].filtered) : ~MergeMessage(run[r].filtered[k])
    /\ \A n \in 1..Len(issues) :
          /\ \A c \in MergeHeads : MergeMessage(c) => ~HasBlock(issues[n].body, c)
          /\ <<"w">> \notin DisplayedItems(issues[n].body)

\* a run on the merge M2, whose expansion is M3 (a merge message) and K2, has
\* finished and written K2's block
C15_Witness ==
    /\ run[1].pc = "done"
    /\ run[1].head = "M2"
    /\ run[1].filtered = <<"K2">>
    /\ \E n \in 1..Len(issues) : HasBlock(issues[n].body, "K2")


\* the positions of a commit list whose message has not occurred before them
FirstSeenAt(cs) ==
    {k \in 1..Len(cs) : \A j \in 1..(k - 1) : Message(cs[j]) # Message(cs[k])}

\* the commits of the list at the positions I, in the order of the list
Picked(cs, I) ==
    [n \in 1..Cardinality(I) |-> cs[CHOOSE k \in I : Cardinality({j \in I : j <= k}) = n]]

\* C18: for a merge commit whose two parent lists overlap, the commits of the run are
\* the distinct commits of both lists, each once, in first-seen order, and the
\* commits the run renders a block for are among those, in that order, one per
\* distinct message.
C18_OverlapOnce ==
    \A r \in RunIds :
        LET both == Compare1(run[r].head) \o Compare2(run[r].head) IN
        (run[r].head \in {"M1", "M2"}) =>
            /\ run[r].pc \in {"filter", "process"} =>
                  SubSeq(run[r].commits, 1, Cardinality(FirstSeenAt(both)))
                      = Picked(both, FirstSeenAt(both))
            /\ \A j, k \in 1..Len(run[r].filtered) :
                  j < k => Message(run[r].filtered[j]) # Message(run[r].filtered[k])
            /\ run[r].pc = "done" =>
                  \E I \in SUBSET FirstSeenAt(both) : run[r].filtered = Picked(both, I)

\* a run on the merge M1, whose parent lists are K1 and K1, K2, has finished with
\* K1 and K2 in that order and the record holds a block of each
C18_Witness ==
    /\ run[1].pc = "done"
    /\ run[1].head = "M1"
    /\ run[1].filtered = <<"K1", "K2">>
    /\ \E n \in 1..Len(issues) : HasBlock(issues[n].body, "K1") /\ HasBlock(issues[n].body, "K2")


\* the types the specification lists
ListedTypes ==
    { <<"feat">>, <<"fix">>, <<"refactor">>, <<"docs">>, <<"test">>, <<"chore">>,
      <<"style">>, <<"perf">> }

\* the type written between the brackets of a title line
TitleType(line) == Slice(line, 2, Min({k \in 2..Len(line) : line[k] = "]"}) - 1)

\* C16: CommitParser.parse never fails because of the type value - for a title line
\* "[<type>] <title>" a listed type is accepted as it is and any other type gives a
\* record classified "other", never a ValueError.
C16_TypeNeverFails ==
    LET line == FirstNonEmptyLine(com.message) IN
    (com.stage = "classified" /\ HasTitleForm(line)) =>
        /\ ~com.parsed.raised
        /\ com.parsed.type = IF TitleType(line) \in ListedTypes THEN TitleType(line)
                             ELSE <<"other">>


SectionWords == {"Body", "Todo", "Footer"}

\* the line is a section marker
IsSectionLine(line) == \E w \in SectionWords : line = <<"[", w, "]">>

\* the lines of the message that stand under the marker of section w: after it and
\* before the next marker
LinesUnder(message, w) ==
    LET lines == SplitLines(message)
        under == {k \in 1..Len(lines) :
                    /\ ~IsSectionLine(lines[k])
                    /\ \E m \in 1..(k - 1) :
                          /\ lines[m] = <<"[", w, "]">>
                          /\ \A j \in (m + 1)..(k - 1) : ~IsSectionLine(lines[j])}
    IN  Picked(lines, under)

\* each section marker occurs at most once in the message
SectionsOnce(message) ==
    \A w \in SectionWords :
        Cardinality({k \in 1..Len(SplitLines(message)) :
                        SplitLines(message)[k] = <<"[", w, "]">>}) <= 1

\* C17: parse_commit_message accepts the [Body], [Todo] and [Footer] sections in any
\* order - the lines under each marker are returned in that section's own field.
C17_SectionsAnyOrder ==
    (com.stage = "parsed" /\ com.data.ok /\ SectionsOnce(com.message)
        /\ HasTitleForm(FirstNonEmptyLine(com.message))) =>
        /\ StrippedLines(com.data.body) = LinesUnder(com.message, "Body")
        /\ StrippedLines(com.data.todo) = LinesUnder(com.message, "Todo")
        /\ StrippedLines(com.data.footer) = LinesUnder(com.message, "Footer")


-----------------------------------------------------------------------------
(* Claims about one commit's todos *)

\* the items of a ledger: (category, text, checked)
LedgerItems(todos) ==
    {<<CategoryAt(todos, i), todos[i].text, todos[i].checked>> : i \in ItemPositions(todos)}

\* C19: the message "[feat] add login" with the [Todo] lines "@Security", "- add 2FA"
\* and "- [done already? no]", parsed and merged into an empty ledger, gives exactly
\* one category Security with exactly one unchecked entry "add 2FA", rendered as one
\* block headed "Security (0/1)" that contains "- [ ] add 2FA".
C19_LoginTodos ==
    (com.message = LoginMessage /\ com.stage = "rendered") =>
        /\ LedgerItems(com.all_todos) = {<<<<"Security">>, <<"add", SP, "2FA">>, FALSE>>}
        /\ Cardinality(SummaryStarts(com.section)) = 1
        /\ \A i \in SummaryStarts(com.section) :
              MatchAt(com.section,
                      <<"<summary>", "<tabs>", SP, "Security", SP, "(", "0", "/", "1", ")",
                        "</summary>">>, i)
        /\ DisplayedLedger(com.section) = {<<<<"Security">>, <<"add", SP, "2FA">>, FALSE>>}


-----------------------------------------------------------------------------
(* Claims about the body parsers *)

\* the body has a Todo heading
HasTodoHeading(body) == \E k \in 1..Len(body) : body[k] = TodoHeading

\* C20: parsing a record body never raises, and a region that is not there is
\* returned empty - parse_existing_issue gives no todos for a body without a Todo
\* heading and no branches for a body without a branch block, and
\* _parse_existing_todos returns (it does not raise) with no todos for a body
\* without a Todo heading.
C20_BodyParsingTotal ==
    /\ doc.stage = "issue" =>
          /\ ~HasTodoHeading(doc.body) => doc.content.todos = <<>>
          /\ ~Contains(doc.body, <<"<details>">>) => doc.content.branches = <<>>
    /\ doc.stage = "todos" =>
          /\ ~doc.existing.raised
          /\ ~HasTodoHeading(doc.body) => doc.existing.todos = <<>>


-----------------------------------------------------------------------------
(* Further claims about the ledger pipeline *)

\* the positions of the items of a list that carry the text t
ItemsWithText(todos, t) == {i \in ItemPositions(todos) : todos[i].text = t}

\* C21: merge_todos keeps every entry of existing_todos - each item of existing_todos
\* appears in the result exactly once, and the items of existing_todos stand in the
\* result in the order they had.
C21_ExistingKept ==
    led.stage = "merged" =>
        /\ \A i \in ItemPositions(led.existing) :
              Cardinality(ItemsWithText(led.merged, led.existing[i].text)) = 1
        /\ \A i, j \in ItemPositions(led.existing) :
              i < j =>
                  \A p \in ItemsWithText(led.merged, led.existing[i].text) :
                      \A q \in ItemsWithText(led.merged, led.existing[j].text) : p < q


\* the item at position j of the list stands after a category marker of the list
HasMarkerBefore(todos, j) == \E m \in 1..(j - 1) : IsMarker(todos[m].text)

\* the identities (case-insensitive category, text) of a list, whatever their state
AllIdentities(todos) == Identities(todos, TRUE) \cup Identities(todos, FALSE)

\* C25: entry identity in merge_todos is the pair (case-insensitive category, text) -
\* an incoming item filed under a category of its own, whose text the ledger holds
\* under another category only, is added under its own category, and the entry of
\* the other category keeps its checked state.
C25_IdentityIsCategoryAndText ==
    led.stage = "merged" =>
        \A j \in ItemPositions(led.new) : \A i \in ItemPositions(led.existing) :
            (/\ HasMarkerBefore(led.new, j)
             /\ led.new[j].text = led.existing[i].text
             /\ Fold(CategoryAt(led.new, j)) # Fold(CategoryAt(led.existing, i)))
            => /\ <<Fold(CategoryAt(led.new, j)), led.new[j].text>> \in AllIdentities(led.merged)
               /\ <<Fold(CategoryAt(led.existing, i)), led.existing[i].text>>
                      \in Identities(led.merged, led.existing[i].checked)

\* C26: an incoming item that no category marker precedes in new_todos is filed under
\* General, whatever the last category of existing_todos was.
C26_UnmarkedIsGeneral ==
    led.stage = "merged" =>
        \A j \in ItemPositions(led.new) :
            (/\ ~HasMarkerBefore(led.new, j)
             /\ \A i \in ItemPositions(led.existing) : led.existing[i].text # led.new[j].text)
            => <<Fold(General), led.new[j].text>> \in AllIdentities(led.merged)


-----------------------------------------------------------------------------
(* A ledger built by a sequence of merges, then written with create_todo_section *)

MaxMerges == 2

\* the entries the incoming lists of a sequence of merges are drawn from
OrderPool ==
    { Entry(FALSE, <<"@", "A">>), Entry(FALSE, <<"@", "B">>), Entry(FALSE, <<"@", "General">>),
      Entry(FALSE, <<"x">>), Entry(TRUE, <<"x">>), Entry(FALSE, <<"y">>),
      Entry(FALSE, <<"z">>) }

\* the ledgers a sequence of merges starts from
StartLedgers ==
    { <<>>,
      <<Entry(FALSE, <<"@", "A">>), Entry(FALSE, <<"x">>)>>,
      <<Entry(FALSE, <<"@", "A">>), Entry(FALSE, <<"x">>),
        Entry(FALSE, <<"@", "B">>), Entry(FALSE, <<"y">>)>>,
      <<Entry(FALSE, <<"@", "General">>), Entry(FALSE, <<"y">>),
        Entry(FALSE, <<"@", "A">>), Entry(FALSE, <<"x">>)>> }

\* the category keys, General aside, in the order their markers were first handed
\* to merge_todos: seen, then those that the list n brings
SeenAfter(seen, n) ==
    LET key(k) == Fold(CategoryOf(n[k].text))
        fresh == {k \in 1..Len(n) :
                    /\ IsMarker(n[k].text)
                    /\ key(k) # Fold(General)
                    /\ key(k) \notin SeqRange(seen)
                    /\ \A j \in 1..(k - 1) : IsMarker(n[j].text) => key(j) # key(k)}
    IN  seen \o [m \in 1..Cardinality(fresh) |->
                    key(CHOOSE k \in fresh : Cardinality({j \in fresh : j <= k}) = m)]

\* the ledger to start from; merges counts the merges, seen is the record of SeenAfter
OrderInit ==
    /\ issues = <<>>
    /\ today = 1
    /\ run = [r \in RunIds |-> IdleRun]
    /\ nruns = 0
    /\ com = ComIdle
    /\ doc = DocIdle
    /\ \E e \in StartLedgers :
          led = [stage |-> "merged", existing |-> <<>>, new |-> <<>>, merged |-> e,
                 body |-> <<>>, parsed |-> <<>>, merges |-> 0, seen |-> SeenAfter(<<>>, e)]

\* all_todos = merge_todos(all_todos, new_todos) for one more incoming list
LedgerMergeMore ==
    /\ led.stage \in {"merged", "rendered"}
    /\ led.merges < MaxMerges
    /\ \E n \in UNION { [1..k -> OrderPool] : k \in 1..MaxNew } :
          led' = [led EXCEPT !.stage = "merged", !.existing = led.merged, !.new = n,
                             !.merged = merge_todos(led.merged, n), !.body = <<>>,
                             !.merges = led.merges + 1, !.seen = SeenAfter(led.seen, n)]
    /\ UNCHANGED <<issues, today, run, nruns, com, doc>>

OrderNext == LedgerMergeMore \/ LedgerRender

SpecOrder == OrderInit /\ [][OrderNext]_vars

\* the category key of the block whose summary line starts at position i
BlockKey(body, i) == Fold(DisplayedName(body, i))

\* where a key stands in the record of the categories seen, 0 when it does not
SeenIndex(seen, key) ==
    IF key \in SeqRange(seen) THEN CHOOSE k \in 1..Len(seen) : seen[k] = key ELSE 0

\* C30: in the Todo region written after any sequence of merges the General block,
\* when there is one, comes first, and the other blocks follow in the order in which
\* their categories were first seen.
C30_GeneralFirstThenFirstSeen ==
    led.stage = "rendered" =>
        \A p, q \in SummaryStarts(led.body) :
            p < q =>
                /\ BlockKey(led.body, q) # Fold(General)
                /\ BlockKey(led.body, p) # Fold(General) =>
                      SeenIndex(led.seen, BlockKey(led.body, p))
                          < SeenIndex(led.seen, BlockKey(led.body, q))


-----------------------------------------------------------------------------
(* Further claims about main() *)

\* the item texts a record body displays, checked or not
AllDisplayedTexts(body) == DisplayedTexts(body, FALSE) \cup DisplayedTexts(body, TRUE)

\* C22: no carried-forward work is lost - when a run that closed prior records has
\* ended, every unchecked item of each record it closed is displayed by an open
\* record, also when the run ended early because no commit was left after the
\* filter or no commit message parsed.
C22_NoCarriedWorkLost ==
    \A r \in RunIds :
        run[r].pc = "done" =>
            \A k \in 1..Len(run[r].closed) :
                \A t \in DisplayedTexts(issues[run[r].closed[k]].body, FALSE) :
                    \E m \in DailyIssues :
                        /\ issues[m].state = "open"
                        /\ t \in AllDisplayedTexts(issues[m].body)


\* C23: when one run ingests several commits into the record that exists for today,
\* the todo entries of every ingested commit are displayed by the record as the run
\* leaves it, not only those of the last commit processed.
C23_EveryCommitsTodosWritten ==
    \A r \in RunIds :
        ( /\ run[r].pc = "done"
          /\ Cardinality(Ingested(r)) >= 2
          /\ BodyWrites(run[r].log) # <<>>
          /\ \A k \in 1..Len(run[r].log) : run[r].log[k] # "create" )
        => \E n \in DailyIssues :
              /\ issues[n].state = "open"
              /\ \A k \in Ingested(r) :
                    TodoTextsOf(run[r].filtered[k]) \subseteq AllDisplayedTexts(issues[n].body)


-----------------------------------------------------------------------------
(* main() on a merge whose expansion holds the merge commit itself *)

\* the commits pushed: a plain commit, a merge of plain commits, and a merge M4 for
\* which repo.compare returns the merge commit itself among the commits
LoopHeads == {"K1", "K2", "M1", "M4"}

LoopNext ==
    \/ BeginWith(1, TRUE, LoopHeads)
    \/ Rotate(1, TRUE)
    \/ FilterStep(1)
    \/ ProcessCommit(1, TRUE)

SpecLoop == Init /\ [][LoopNext]_vars

\* the loop over commits_to_process reads, at a merge commit, a commit whose expansion
\* holds that commit itself
ExpandsItself(r) ==
    /\ run[r].pc = "filter"
    /\ LET c == run[r].commits[run[r].i] IN
       /\ MergeMessage(c)
       /\ \E k \in 1..Len(get_merge_commits(c)) : get_merge_commits(c)[k] = c

\* C28: the commit filtering loop of main terminates for every finite commit
\* history.  The expansion of a commit depends on the commit alone and is appended
\* behind the position being read, so a commit whose expansion holds that commit is
\* read and expanded again without end: a loop that terminates never reads such a
\* commit.
C28_FilterLoopTerminates == ~ExpandsItself(1)

-----------------------------------------------------------------------------
(* workflow_tracker.py: merge_todos with TodoManager *)

\* TodoManager.__init__
NewTodoManager ==
    [categories |-> << [name |-> General, items |-> <<>>] >>, current |-> General]

\* the position of the key in self.categories, 0 when it is not a key
CategoryIdx(m, name) ==
    IF \E k \in 1..Len(m.categories) : m.categories[k].name = name
    THEN CHOOSE k \in 1..Len(m.categories) : m.categories[k].name = name
    ELSE 0

\* TodoManager.set_category
TodoManager_set_category(m, category) ==
    LET name == IF category = <<>> THEN General ELSE Strip(category) IN
    [categories |-> IF CategoryIdx(m, name) = 0
                    THEN Append(m.categories, [name |-> name, items |-> <<>>])
                    ELSE m.categories,
     current |-> name]

\* TodoManager.add_todo; TodoItem.__init__ strips the text, TodoItem.__eq__ compares
\* text and category
TodoManager_add_todo(m, text, checked, category) ==
    LET use_category == IF category # <<>> THEN category ELSE m.current
        m1 == TodoManager_set_category(m, use_category)
        k == CategoryIdx(m1, use_category)
        todo == [text |-> Strip(text), checked |-> checked, category |-> use_category]
        held == \E p \in 1..Len(m1.categories[k].items) :
                    /\ m1.categories[k].items[p].text = todo.text
                    /\ m1.categories[k].items[p].category = todo.category
    IN  IF held THEN m1
        ELSE [m1 EXCEPT !.categories[k].items = Append(m1.categories[k].items, todo)]

\* sorted(cat for cat in self.categories if cat != 'General'), over the one-character
\* category names the lists are drawn from
RECURSIVE SortedNames(_)
SortedNames(names) ==
    IF names = {} THEN <<>>
    ELSE LET Ord(ch) == CASE ch = "A" -> 65 [] ch = "B" -> 66 [] OTHER -> 0
             first == CHOOSE n \in names : \A o \in names : Ord(n[1]) <= Ord(o[1])
         IN  <<first>> \o SortedNames(names \ {first})

\* the marker of a category and its items, nothing for a category without items
ManagerBlock(m, name) ==
    LET items == m.categories[CategoryIdx(m, name)].items IN
    IF items = <<>> THEN <<>>
    ELSE <<Entry(FALSE, <<"@">> \o name)>>
         \o [p \in 1..Len(items) |-> Entry(items[p].checked, items[p].text)]

RECURSIVE ManagerBlocks(_, _, _)
ManagerBlocks(m, names, k) ==
    IF k > Len(names) THEN <<>>
    ELSE ManagerBlock(m, names[k]) \o ManagerBlocks(m, names, k + 1)

\* TodoManager.get_all_todos
TodoManager_get_all_todos(m) ==
    ManagerBlock(m, General)
    \o ManagerBlocks(m, SortedNames({m.categories[k].name : k \in 1..Len(m.categories)}
                                     \ {General}), 1)

\* merge_todos.process_todos, update_existing and checked: in every category the
\* first todo with the text becomes checked
CheckFirst(items, text) ==
    IF \E p \in 1..Len(items) : items[p].text = text
    THEN LET p == CHOOSE q \in 1..Len(items) :
                      /\ items[q].text = text
                      /\ \A o \in 1..(q - 1) : items[o].text # text
         IN  [items EXCEPT ![p].checked = TRUE]
    ELSE items

MarkChecked(m, text) ==
    [m EXCEPT !.categories =
        <<>> \o [k \in 1..Len(m.categories) |->
                    [m.categories[k] EXCEPT !.items = CheckFirst(m.categories[k].items, text)]]]

\* merge_todos.process_todos from position k on; st holds todo_manager and the
\* nonlocal current_category
RECURSIVE process_todos(_, _, _, _)
process_todos(todos, update_existing, st, k) ==
    IF k > Len(todos) THEN st
    ELSE LET checked == todos[k].checked
             text == todos[k].text
         IN  IF StartsWith(text, <<"@">>)
             THEN process_todos(todos, update_existing,
                      [todo_manager |-> TodoManager_set_category(st.todo_manager,
                                                                 Strip(Tail(text))),
                       current_category |-> Strip(Tail(text))], k + 1)
             ELSE IF update_existing /\ checked
             THEN process_todos(todos, update_existing,
                      [st EXCEPT !.todo_manager = MarkChecked(st.todo_manager, text)], k + 1)
             ELSE process_todos(todos, update_existing,
                      [st EXCEPT !.todo_manager =
                          TodoManager_add_todo(st.todo_manager, text, checked,
                                               st.current_category)], k + 1)

\* workflow_tracker.merge_todos
tracker_merge_todos(existing_todos, new_todos) ==
    LET st0 == [todo_manager |-> NewTodoManager, current_category |-> General]
        st1 == process_todos(existing_todos, TRUE, st0, 1)
        st2 == process_todos(new_todos, FALSE, st1, 1)
    IN  TodoManager_get_all_todos(st2.todo_manager)

MaxTracked == 3

\* the entries the lists given to workflow_tracker.merge_todos are drawn from
TrackerPool ==
    { Entry(FALSE, <<"@", "A">>), Entry(FALSE, <<"@", "B">>),
      Entry(FALSE, <<"x">>), Entry(TRUE, <<"x">>), Entry(FALSE, <<"y">>) }

TrackerInit ==
    /\ issues = <<>>
    /\ today = 1
    /\ run = [r \in RunIds |-> IdleRun]
    /\ nruns = 0
    /\ \E e \in UNION { [1..k -> TrackerPool] : k \in 0..MaxTracked },
          n \in UNION { [1..k -> TrackerPool] : k \in 0..MaxNew } :
          led = [LedIdle EXCEPT !.stage = "input", !.existing = e, !.new = n]
    /\ com = ComIdle
    /\ doc = DocIdle

\* all_todos = merge_todos(existing_todos, new_todos)
TrackerMerge ==
    /\ led.stage = "input"
    /\ led' = [led EXCEPT !.stage = "merged",
                          !.merged = tracker_merge_todos(led.existing, led.new)]
    /\ UNCHANGED <<issues, today, run, nruns, com, doc>>

SpecTracker == TrackerInit /\ [][TrackerMerge]_vars

\* C24: workflow_tracker.merge_todos never loses completed state: every checked item
\* of existing_todos is present, and checked, in the merged result, and an incoming
\* checked item whose category and text already exist unchecked makes that item
\* checked.
C24_CompletedStateKept ==
    led.stage = "merged" =>
        /\ \A i \in ItemPositions(led.existing) :
              led.existing[i].checked =>
                  \E j \in ItemPositions(led.merged) :
                      /\ led.merged[j].text = led.existing[i].text
                      /\ led.merged[j].checked
        /\ \A i \in ItemPositions(led.new) :
              (/\ led.new[i].checked
               /\ \E e \in ItemPositions(led.existing) :
                     /\ ~led.existing[e].checked
                     /\ led.existing[e].text = led.new[i].text
                     /\ CategoryAt(led.existing, e) = CategoryAt(led.new, i))
              => \A j \in ItemPositions(led.merged) :
                     (/\ led.merged[j].text = led.new[i].text
                      /\ CategoryAt(led.merged, j) = CategoryAt(led.new, i))
                     => led.merged[j].checked

-----------------------------------------------------------------------------
(* domains/reporting/daily.py: DailyReporter.generate_dsr against the issue *)
(* store.  A record of the store is a report (kind "dsr") or the issue of   *)
(* one todo (kind "task"); its number is its position, and a later position *)
(* is a later createdAt.                                                    *)

MaxDsrRuns == 3

\* issue_title
DsrTitle(d) ==
    <<"<cal>", SP, "Development Status Report", SP, "(">> \o DateString(d)
    \o <<")", SP, "-", SP, RepoName>>

\* _get_branch_summaries: the commits of the date, the same at every run
DsrCommits(d) ==
    IF d = 1
    THEN << [title |-> <<"a">>, hash |-> "K1",
             todos |-> << [category |-> <<"A">>, task |-> <<"x">>] >>] >>
    ELSE << [title |-> <<"b">>, hash |-> "K2",
             todos |-> << [category |-> <<"B">>, task |-> <<"y">>] >>] >>

\* x < y on strings, a token standing for its first character
RECURSIVE StrLess(_, _)
StrLess(a, b) ==
    LET Ord(t) == CASE t = SP -> 32 [] t = "#" -> 35 [] t = "(" -> 40
                    [] t \in {"0", "1", "2", "3", "4", "5", "6", "7", "8", "9"} ->
                           48 + (CHOOSE k \in 0..9 : Digits[k + 1] = t)
                    [] t = "A" -> 65 [] t = "B" -> 66 [] t = "General" -> 71
                    [] t = "[" -> 91 [] t = "x" -> 120 [] t = "y" -> 121
                    [] OTHER -> 0
    IN  IF b = <<>> THEN FALSE
        ELSE IF a = <<>> THEN TRUE
        ELSE IF a[1] # b[1] THEN Ord(a[1]) < Ord(b[1])
        ELSE StrLess(Tail(a), Tail(b))

\* all_todos.sort(key=lambda x: (x.category, x.task)): a stable sort
RECURSIVE SortTodos(_)
SortTodos(todos) ==
    IF todos = <<>> THEN <<>>
    ELSE LET Before(x, y) == \/ StrLess(x.category, y.category)
                             \/ x.category = y.category /\ StrLess(x.task, y.task)
             first == CHOOSE k \in 1..Len(todos) :
                          /\ \A o \in 1..Len(todos) : ~Before(todos[o], todos[k])
                          /\ \A o \in 1..(k - 1) : Before(todos[k], todos[o])
         IN  <<todos[first]>>
             \o SortTodos(SubSeq(todos, 1, first - 1) \o SubSeq(todos, first + 1, Len(todos)))

\* TodoIssueManager._create_single_todo_issue for the new todos from position k on:
\* the open issue with the title of the todo is reused, otherwise one is created.
\* ok = FALSE: no issue comes back and the TodoItem is built without one.
RECURSIVE AddNewTodos(_, _, _, _, _)
AddNewTodos(new_todos, k, all_todos, store, ok) ==
    IF k > Len(new_todos) THEN [todos |-> all_todos, store |-> store]
    ELSE LET category == new_todos[k].category
             task == new_todos[k].task
             title == <<"[">> \o category \o <<"]", SP>> \o task
             held == {n \in 1..Len(store) : /\ store[n].kind = "task"
                                            /\ store[n].state = "open"
                                            /\ store[n].title = title}
             \* get_issues lists the newest issue first
             number == IF held # {} THEN CHOOSE n \in held : \A o \in held : o <= n
                       ELSE Len(store) + 1
             store1 == IF held # {} THEN store
                       ELSE Append(store, [kind |-> "task", title |-> title, body |-> <<>>,
                                           state |-> "open"])
         IN  IF ok
             THEN AddNewTodos(new_todos, k + 1,
                      Append(all_todos,
                             [category |-> category, task |-> task, completed |-> FALSE,
                              issue_ref |-> <<"#">> \o NumStr(number),
                              issue_number |-> number]),
                      store1, ok)
             ELSE AddNewTodos(new_todos, k + 1,
                      Append(all_todos,
                             [category |-> category, task |-> task, completed |-> FALSE,
                              issue_ref |-> <<>>, issue_number |-> 0]),
                      store, ok)

\* the todos of all the commits, in order
RECURSIVE CommitTodoList(_, _)
CommitTodoList(commits, k) ==
    IF k > Len(commits) THEN <<>> ELSE commits[k].todos \o CommitTodoList(commits, k + 1)

\* DailyReporter._process_commit_todos
_process_commit_todos(commits, existing_todos, store, ok) ==
    LET new_todos ==
            SelectSeq(CommitTodoList(commits, 1),
                      LAMBDA t : ~\E e \in 1..Len(existing_todos) :
                                     /\ existing_todos[e].category = t.category
                                     /\ existing_todos[e].task = t.task)
        added == AddNewTodos(new_todos, 1, existing_todos, store, ok)
    IN  [todos |-> SortTodos(added.todos), store |-> added.store]

\* DailyReporter._format_author_section, for commits without body lines
RECURSIVE _format_author_section(_, _)
_format_author_section(commits, k) ==
    IF k = 0
    THEN << <<"<details>">>,
            <<"<summary>", "<h3>", "<spark>", SP, "Author_", Author, "</h3>", "</summary>">>,
            <<>> >>
         \o _format_author_section(commits, 1)
    ELSE IF k > Len(commits) THEN << <<"</details>">> >>
    ELSE << <<">", SP, "<details>">>,
            <<">", SP, "<summary>", "<dizzy>", SP, TimeString, SP, "-", SP>>
                \o commits[k].title \o <<"</summary>">>,
            <<">">>,
            <<">", SP, "Type:", SP, "feat", SP, "(", "New Feature", ")">>,
            <<">", SP, "Commit:", SP, commits[k].hash>>,
            <<">", SP, "Author:", SP, Author>>,
            <<">">>,
            <<">", SP, "No additional details provided.">>,
            <<">">>,
            <<">", SP, "</details>">>,
            <<>> >>
         \o _format_author_section(commits, k + 1)

\* DailyReporter._format_todo_section: the lines of one category, then those of the
\* categories that follow it in the order of their first todo
RECURSIVE _format_todo_section(_)
_format_todo_section(todos) ==
    IF todos = <<>> THEN <<>>
    ELSE LET category == todos[1].category
             category_items == SelectSeq(todos, LAMBDA t : t.category = category)
             completed_count == Len(SelectSeq(category_items, LAMBDA t : t.completed))
             TaskLine(t) ==
                 <<"-", SP, "[", IF t.completed THEN "x" ELSE SP, "]", SP>> \o t.task
                 \o (IF t.issue_number # 0
                     THEN <<SP, "(", "[", "#">> \o NumStr(t.issue_number)
                          \o <<"]", "(", "https://github.com/", "o/r", "/issues/">>
                          \o NumStr(t.issue_number) \o <<")", ")">>
                     ELSE IF t.issue_ref # <<>>
                     THEN <<SP, "(">> \o t.issue_ref \o <<")">>
                     ELSE <<>>)
         IN  << <<"<details>">>,
                <<"<summary>", "<strong>", "@">> \o category
                    \o <<"</strong>", SP, "(">> \o NumStr(completed_count) \o <<"/">>
                    \o NumStr(Len(category_items)) \o <<SP, "completed", ")", "</summary>">>,
                <<>> >>
             \o [p \in 1..Len(category_items) |-> TaskLine(category_items[p])]
             \o << <<>>, <<"</details>">>, <<>> >>
             \o _format_todo_section(SelectSeq(todos, LAMBDA t : t.category # category))

\* DailyReporter._generate_report_body
_generate_report_body(title, commits, todos) ==
    Join(<< <<"#", SP>> \o title, <<>>, <<"<divc>">>, <<>>, <<BranchHeading>>, <<>>,
            <<"</div>">>, <<>> >>
         \o _format_author_section(commits, 0)
         \o << <<>>, <<"<divc>">>, <<>>, <<TodoHeading>>, <<>>, <<"</div>">>, <<>> >>
         \o (IF todos = <<>> THEN << <<"No todos at this time.">> >>
             ELSE _format_todo_section(todos)),
         <<NL>>)

\* the open reports of the store, the newest first, as get_issues lists them
RECURSIVE OpenDsr(_, _)
OpenDsr(store, n) ==
    IF n = 0 THEN <<>>
    ELSE (IF store[n].kind = "dsr" /\ store[n].state = "open"
             /\ Contains(store[n].title, <<"Development Status Report">>)
          THEN <<n>> ELSE <<>>)
         \o OpenDsr(store, n - 1)

DsrIdle == [pc |-> "idle", date |-> 0, existing_issue |-> 0, previous_todos |-> <<>>]

DsrInit ==
    /\ issues = <<>>
    /\ today = 1
    /\ run = [r \in RunIds |-> DsrIdle]
    /\ nruns = 0
    /\ led = LedIdle
    /\ com = ComIdle
    /\ doc = DocIdle

\* generate_dsr up to the todos it starts from: _find_dsr_issue, then
\* _parse_existing_todos on the report found or, when there is none,
\* _get_previous_dsr_todos, which closes the newest open report of another date
DsrBegin(r) ==
    /\ run[r].pc \in {"idle", "done", "failed"}
    /\ nruns < MaxDsrRuns
    /\ nruns' = nruns + 1
    /\ LET listing == OpenDsr(issues, Len(issues))
           found == SelectSeq(listing, LAMBDA n : issues[n].title = DsrTitle(today))
           others == SelectSeq(listing,
                               LAMBDA n : ~Contains(issues[n].title, DateString(today)))
           read == IF found # <<>> THEN found[1]
                   ELSE IF others # <<>> THEN others[1] ELSE 0
           parsed == IF read = 0 THEN [raised |-> FALSE, todos |-> <<>>]
                     ELSE _parse_existing_todos(issues[read].body)
           start == [DsrIdle EXCEPT !.date = today]
       IN  IF parsed.raised
           THEN /\ run' = [run EXCEPT ![r] = [start EXCEPT !.pc = "failed"]]
                /\ UNCHANGED issues
           ELSE IF found # <<>>
           THEN /\ run' = [run EXCEPT ![r] = [start EXCEPT !.pc = "write",
                                                           !.existing_issue = found[1],
                                                           !.previous_todos = parsed.todos]]
                /\ UNCHANGED issues
           ELSE /\ run' = [run EXCEPT ![r] =
                              [start EXCEPT !.pc = "write",
                                            !.previous_todos =
                                                SelectSeq(parsed.todos,
                                                          LAMBDA t : ~t.completed)]]
                /\ issues' = IF read = 0 THEN issues
                             ELSE [issues EXCEPT ![read].state = "closed"]
    /\ UNCHANGED <<today, led, com, doc>>

\* generate_dsr from _process_commit_todos on: the report body is built and the
\* report is updated or created.  ok = FALSE: the todo issues cannot be created.
DsrWrite(r, ok) ==
    /\ run[r].pc = "write"
    /\ LET commits == DsrCommits(run[r].date)
           pt == _process_commit_todos(commits, run[r].previous_todos, issues, ok)
           report_body == _generate_report_body(DsrTitle(run[r].date), commits, pt.todos)
       IN  issues' = IF run[r].existing_issue # 0
                     THEN [pt.store EXCEPT ![run[r].existing_issue].body = report_body]
                     ELSE Append(pt.store, [kind |-> "dsr", title |-> DsrTitle(run[r].date),
                                            body |-> report_body, state |-> "open"])
    /\ run' = [run EXCEPT ![r] = [DsrIdle EXCEPT !.pc = "done", !.date = run[r].date]]
    /\ UNCHANGED <<today, nruns, led, com, doc>>

\* the date changes between invocations
DsrNextDay ==
    /\ today < MaxDay
    /\ \A r \in RunIds : run[r].pc # "write"
    /\ today' = today + 1
    /\ UNCHANGED <<issues, run, nruns, led, com, doc>>

DsrNext ==
    \/ \E r \in RunIds : DsrBegin(r)
    \/ \E r \in RunIds, ok \in BOOLEAN : DsrWrite(r, ok)
    \/ DsrNextDay

SpecDsr == DsrInit /\ [][DsrNext]_vars

\* the entries a report body displays: the name of the block and the item line
RECURSIVE DsrEntries(_, _, _)
DsrEntries(lines, k, block) ==
    IF k > Len(lines) THEN <<>>
    ELSE IF StartsWith(lines[k], <<"<summary>", "<strong>", "@">>)
    THEN DsrEntries(lines, k + 1,
                    SubSeq(lines[k], 4, Find(lines[k], <<"</strong>">>, 1) - 1))
    ELSE IF StartsWith(lines[k], <<"-", SP, "[">>)
    THEN << <<block, lines[k]>> >> \o DsrEntries(lines, k + 1, block)
    ELSE DsrEntries(lines, k + 1, block)

\* C27: re-running generate_dsr for the same date with the same commits leaves the
\* ledger of the report as it is: the entries the report displays after the run are
\* those it displayed before, none added and none under another category.
C27_RerunKeepsLedger ==
    [][\A n \in 1..Len(issues) :
          issues[n].kind = "dsr" =>
              LET before == DsrEntries(SplitLines(issues[n].body), 1, <<>>)
                  after == DsrEntries(SplitLines(issues'[n].body), 1, <<>>)
              IN  /\ Len(after) = Len(before)
                  /\ {after[k] : k \in 1..Len(after)} = {before[k] : k \in 1..Len(before)}]_vars

\* C29: a run that finds no report for its date, and so rotates and creates one,
\* leaves no open report of another date.
C29_RotationClosesAll ==
    [][\A r \in RunIds :
          (run[r].pc = "write" /\ run'[r].pc = "done" /\ run[r].existing_issue = 0)
              => \A n \in 1..Len(issues') :
                     (issues'[n].kind = "dsr" /\ issues'[n].state = "open")
                         => issues'[n].title = DsrTitle(run[r].date)]_vars

====
